---- MODULE Spec2Model ----
(***************************************************************************)
(* A state-machine model of nano_rag's query path:                         *)
(*   - SemanticCacheService (services/cache_service.py)                    *)
(*   - HistoryService       (services/history_service.py)                  *)
(*   - QueryService.ask / ask_stream (services/query_service.py)           *)
(*   - chat_stream_endpoint.event_generator (api/main.py)                  *)
(* Text is a sequence of one-character strings.  Distances and scores are  *)
(* integers: an L2 distance in thousandths, a relevance score in           *)
(* hundredths.                                                             *)
(***************************************************************************)
EXTENDS Integers, Sequences, FiniteSets, TLC

VARIABLES
    \* SemanticCacheService
    store,        \* self._store: [exists, docs]; exists = FALSE is None
    disk,         \* the index files under persist_dir/cache_store
    updPc,        \* position of the update() coroutine in flight
    updDoc,       \* the Document update() built (lines 108-111)
    lookupRes,    \* what the last lookup() call did
    updLog,       \* questions whose update() call has returned
    lastOp,       \* the operation that produced the current state
    \* HistoryService
    history,      \* the chat_message table, in timestamp order
    \* QueryService configuration
    cfg,          \* [reranker, cache]: which optional collaborators exist
    \* one request of QueryService.ask / ask_stream
    nreq,         \* requests started so far
    req,          \* [query, session_id] of the request in flight
    stPc,         \* where the coroutine / generator is suspended
    loc,          \* its local variables
    trace,        \* its yields and its calls of collaborators, in order
    wire,         \* what event_generator has yielded to the HTTP response
    wHist,        \* the add_turn child of asyncio.gather (line 241)
    atStart,      \* history, store and disk as the request found them
    resp,         \* the QueryResponse returned by ask
    \* IngestionService and the stores it writes
    strategy,          \* retrieval_config.retriever.strategy
    data_dir,          \* the files under the data root: path -> content
    metadata_file,     \* persist_dir/ingestion_metadata.json
    faiss_store,       \* FaissVectorStore._faiss_store (None: exists = FALSE)
    faiss_index_file,  \* persist_dir/index.faiss as saved by save_local
    bm25_index_file,   \* persist_dir/bm25_retriever.pkl
    nruns,             \* ingestion runs started so far
    ing,               \* the run of IngestionService.run in flight or last ended
    \* HybridRetriever
    hyb,               \* its configuration and its last retrieve / aretrieve call
    \* update() coroutines of concurrent requests
    conc,              \* self._store, the FAISS objects, the index files, the tasks
    \* the chat_message table with timestamps
    tbl,               \* its rows, the clock, the last get_history_messages call
    \* the serving process
    srv                \* the retrievers its QueryService holds, its last query

cacheVars == <<store, disk, updPc, updDoc, lookupRes, updLog, lastOp>>

reqVars == <<history, cfg, nreq, req, stPc, loc, trace, wire, wHist, atStart, resp>>

hybridVars == <<hyb>>

concVars == <<conc>>

tableVars == <<tbl>>

servingVars == <<srv>>

ingestVars == <<strategy, data_dir, metadata_file, faiss_store, faiss_index_file,
                bm25_index_file, nruns, ing>>

vars == <<store, disk, updPc, updDoc, lookupRes, updLog, lastOp,
          history, cfg, nreq, req, stPc, loc, trace, wire, wHist, atStart, resp,
          strategy, data_dir, metadata_file, faiss_store, faiss_index_file,
          bm25_index_file, nruns, ing, hyb, conc, tbl, srv>>

----------------------------------------------------------------------------
(* Bounds of the model *)

MaxEntries == 2          \* update() calls per behaviour of SpecCache

----------------------------------------------------------------------------
(* Text *)

Q1 == <<"x">>
Q2 == <<"y">>
Q3 == <<"z">>
Questions == {Q1, Q2, Q3}

EmptyText == <<>>
CacheAnswers == {<<"a">>, EmptyText}

----------------------------------------------------------------------------
(* SemanticCacheService *)

\* cache_service.py:34  SCORE_THRESHOLD = 0.35, in thousandths
SCORE_THRESHOLD == 350

\* The embedding provider and FAISS' L2 metric: the distance between the
\* embeddings of two questions, in thousandths.  Identical text embeds to the
\* same vector (distance 0); Q1/Q2 are paraphrases just under the threshold,
\* Q2/Q3 sit exactly on it, Q1/Q3 are unrelated.
L2Distance(a, b) ==
    IF a = b THEN 0
    ELSE IF {a, b} = {Q1, Q2} THEN 349
    ELSE IF {a, b} = {Q2, Q3} THEN 350
    ELSE 900

NoStore == [exists |-> FALSE, docs |-> <<>>]

\* FAISS.similarity_search_with_score(query, k=1): the possible result lists.
\* FAISS does not define which of several equidistant entries comes first.
similarity_search_with_score(docs, query) ==
    IF docs = <<>> THEN {<<>>}
    ELSE {<<[doc |-> docs[i], score |-> L2Distance(query, docs[i].page_content)]>> :
            i \in {j \in DOMAIN docs :
                     \A k \in DOMAIN docs :
                        L2Distance(query, docs[j].page_content)
                          <= L2Distance(query, docs[k].page_content)}}

\* What a lookup() call gives its caller: raised (an exception left lookup),
\* or a returned value that is None (hit = FALSE) or an answer.
ReturnNone == [raised |-> FALSE, hit |-> FALSE, answer |-> EmptyText]
ReturnAnswer(a) == [raised |-> FALSE, hit |-> TRUE, answer |-> a]
Raised == [raised |-> TRUE, hit |-> FALSE, answer |-> EmptyText]

NoLookup == [query |-> EmptyText, searchRaises |-> FALSE, res |-> ReturnNone]

\* The score test of lookup (cache_service.py:93)
ScoreTestMutLe(score) == score <= SCORE_THRESHOLD
ScoreTest(score) == score < SCORE_THRESHOLD

\* The except clause of lookup (cache_service.py:99-101)
LookupExceptMutPropagate == Raised
LookupExcept == ReturnNone

\* SemanticCacheService.lookup: the set of possible outcomes.  searchRaises is
\* the environment's choice: the embedding call or the search throws.
lookup(st, query, searchRaises) ==
    IF ~st.exists THEN {ReturnNone}
    ELSE IF searchRaises THEN {LookupExcept}
    ELSE {IF r = <<>> THEN ReturnNone
          ELSE IF ScoreTest(r[1].score) THEN ReturnAnswer(r[1].doc.answer)
          ELSE ReturnNone :
             r \in similarity_search_with_score(st.docs, query)}

\* Document(page_content=query, metadata={"answer": answer})
Document(query, answer) == [page_content |-> query, answer |-> answer]

\* The index once the worker thread of update has finished: a fresh
\* one-document index (FAISS.from_documents) when update saw no index,
\* the index with the document added (add_documents) otherwise.
IndexAfterMutReplace(st, fresh, doc) == [exists |-> TRUE, docs |-> <<doc>>]
IndexAfter(st, fresh, doc) ==
    IF fresh THEN [exists |-> TRUE, docs |-> <<doc>>]
    ELSE [exists |-> TRUE, docs |-> Append(st.docs, doc)]

\* cache_service.py:33
CACHE_INDEX_NAME == "semantic_cache"

\* The files save_local(persist_dir, CACHE_INDEX_NAME) leaves under
\* persist_dir/cache_store (124-128)
cache_files(d) ==
    IF d.exists THEN {CACHE_INDEX_NAME \o ".faiss", CACHE_INDEX_NAME \o ".pkl"} ELSE {}

\* _init_cache (43-64): the index is loaded when the file index.faiss
\* exists; a failing load is logged and leaves no index
_init_cache(d, loadRaises) ==
    IF "index.faiss" \in cache_files(d)
    THEN IF loadRaises THEN NoStore ELSE d
    ELSE NoStore

\* update(), up to its first await: builds the Document and tests
\* self._store is None (lines 108-121).
UpdateCall(query, answer) ==
    /\ updPc = "idle"
    /\ updDoc' = Document(query, answer)
    /\ updPc' = IF store.exists THEN "add_documents" ELSE "from_documents"

\* The worker thread of from_documents / add_documents ends: the index holds
\* the entry, or the embedding raised and the except clause (131-132) ends
\* update.
UpdateIndexed(raises) ==
    /\ updPc \in {"from_documents", "add_documents"}
    /\ IF raises
       THEN /\ updPc' = "idle"
            /\ UNCHANGED store
       ELSE /\ store' = IndexAfter(store, updPc = "from_documents", updDoc)
            /\ updPc' = "save_local"

\* The worker thread of save_local ends (124-128): the whole index is on
\* disk, or the write raised and is logged.
UpdateSavedMutBatched(raises) ==
    /\ updPc = "save_local"
    /\ disk' = disk
    /\ updPc' = "idle"
UpdateSaved(raises) ==
    /\ updPc = "save_local"
    /\ disk' = IF raises THEN disk ELSE store
    /\ updPc' = "idle"

----------------------------------------------------------------------------
(* Concurrent update() calls on one SemanticCacheService.  Requests of one  *)
(* event loop run their update() coroutines interleaved at the awaits; the   *)
(* FAISS objects are kept in a heap so that each worker thread acts on the   *)
(* object its call was bound to.                                             *)

MaxUpdates == 3          \* update() calls per behaviour of SpecConcurrent

UpdateTasks == {1, 2}

ConcAnswers == {<<"a">>, <<"b">>}

None == 0

IdleTask == [pc |-> "idle", doc |-> Document(EmptyText, EmptyText), ref |-> None,
             branch |-> "none", outcome |-> "none"]

NoConcurrent ==
    [store |-> None, heap |-> <<>>, faiss |-> NoStore, pkl |-> NoStore,
     task |-> [t \in UpdateTasks |-> IdleTask], ncalls |-> 0, assigned |-> <<>>]

IdleConcurrent == conc = NoConcurrent

\* self._store = await asyncio.to_thread(FAISS.from_documents, ...) (115-119)
assign_storeMutKeepFirst(current, fresh) == IF current = None THEN fresh ELSE current

assign_store(current, fresh) == fresh

\* update() up to its first await: the Document, the test self._store is
\* None, and the worker thread started on the object the call is bound to
\* (108-121)
ConcUpdateCall(t, query, answer) ==
    /\ conc.task[t].pc = "idle"
    /\ conc.ncalls < MaxUpdates
    /\ conc' = [conc EXCEPT
           !.ncalls = @ + 1,
           !.task[t] = [pc |-> IF conc.store = None THEN "from_documents"
                               ELSE "add_documents",
                        doc |-> Document(query, answer),
                        ref |-> conc.store,
                        branch |-> IF conc.store = None THEN "from_documents"
                                   ELSE "add_documents",
                        outcome |-> "none"]]

\* The await of from_documents returns: the fresh one-entry index is assigned
\* to self._store, and save_local is started on self._store (115-128); or the
\* worker raised and the except clause ends update (131-132).
ConcFromDocumentsDone(t, raises) ==
    /\ conc.task[t].pc = "from_documents"
    /\ IF raises
       THEN conc' = [conc EXCEPT !.task[t].pc = "idle", !.task[t].outcome = "raised"]
       ELSE LET fresh == Len(conc.heap) + 1
                now   == assign_store(conc.store, fresh)
            IN conc' = [conc EXCEPT
                   !.heap = Append(@, <<conc.task[t].doc>>),
                   !.store = now,
                   !.assigned = Append(@, t),
                   !.task[t].ref = now,
                   !.task[t].pc = "write_faiss"]

\* The await of add_documents returns: the entry is in the index the call
\* was bound to, and save_local is started on self._store (121-128).
ConcAddDocumentsDone(t, raises) ==
    /\ conc.task[t].pc = "add_documents"
    /\ IF raises
       THEN conc' = [conc EXCEPT !.task[t].pc = "idle", !.task[t].outcome = "raised"]
       ELSE conc' = [conc EXCEPT
                !.heap[conc.task[t].ref] = Append(@, conc.task[t].doc),
                !.task[t].ref = conc.store,
                !.task[t].pc = "write_faiss"]

\* The worker thread of save_local writes semantic_cache.faiss
ConcFaissWritten(t, raises) ==
    /\ conc.task[t].pc = "write_faiss"
    /\ IF raises
       THEN conc' = [conc EXCEPT !.task[t].pc = "idle", !.task[t].outcome = "raised"]
       ELSE conc' = [conc EXCEPT
                !.faiss = [exists |-> TRUE, docs |-> conc.heap[conc.task[t].ref]],
                !.task[t].pc = "write_pkl"]

\* ... then semantic_cache.pkl, and update returns (124-129)
ConcPklWritten(t, raises) ==
    /\ conc.task[t].pc = "write_pkl"
    /\ IF raises
       THEN conc' = [conc EXCEPT !.task[t].pc = "idle", !.task[t].outcome = "raised"]
       ELSE conc' = [conc EXCEPT
                !.pkl = [exists |-> TRUE, docs |-> conc.heap[conc.task[t].ref]],
                !.task[t].pc = "idle",
                !.task[t].outcome = "saved"]

----------------------------------------------------------------------------
(* Text helpers *)

IsSpace(c) == c \in {" ", "\n"}

RECURSIVE lstrip(_)
lstrip(t) == IF t # <<>> /\ IsSpace(Head(t)) THEN lstrip(Tail(t)) ELSE t

RECURSIVE rstrip(_)
rstrip(t) ==
    IF t # <<>> /\ IsSpace(t[Len(t)]) THEN rstrip(SubSeq(t, 1, Len(t) - 1)) ELSE t

\* str.strip()
strip(t) == rstrip(lstrip(t))

\* sep.join(parts)
RECURSIVE join(_, _)
join(sep, parts) ==
    IF parts = <<>> THEN <<>>
    ELSE IF Len(parts) = 1 THEN parts[1]
    ELSE parts[1] \o sep \o join(sep, Tail(parts))

Min(a, b) == IF a <= b THEN a ELSE b

\* s[i:i+n] of Python, i counted from 0
SliceMutFromStart(s, i, n) == SubSeq(s, 1, Min(n, Len(s)))

Slice(s, i, n) == SubSeq(s, i + 1, Min(i + n, Len(s)))

----------------------------------------------------------------------------
(* HistoryService *)

\* query_service.py:48  HistoryService(max_history_len=5)
max_history_len == 5

Sessions == {"s1", "s2"}
StreamSessions == {"s1"}

ChatMessage(sid, role, content) ==
    [session_id |-> sid, role |-> role, content |-> content]

\* HistoryService.add_turn: both messages in one commit; a failing commit is
\* logged and writes nothing.
add_turnMutAnswerFirst(h, sid, user_query, ai_answer, commitRaises) ==
    IF commitRaises THEN h
    ELSE h \o <<ChatMessage(sid, "ai", ai_answer),
                ChatMessage(sid, "user", user_query)>>

add_turn(h, sid, user_query, ai_answer, commitRaises) ==
    IF commitRaises THEN h
    ELSE h \o <<ChatMessage(sid, "user", user_query),
                ChatMessage(sid, "ai", ai_answer)>>

LastN(s, n) == IF Len(s) <= n THEN s ELSE SubSeq(s, Len(s) - n + 1, Len(s))

\* HistoryService.get_history_messages: the newest max_history_len * 2
\* messages of the session, oldest first; [] when the query raises.
get_history_messages(h, sid, queryRaises) ==
    IF queryRaises THEN <<>>
    ELSE LET mine == SelectSeq(h, LAMBDA m : m.session_id = sid)
             db_msgs == LastN(mine, max_history_len * 2)
         IN [i \in DOMAIN db_msgs |->
                [role |-> db_msgs[i].role, content |-> db_msgs[i].content]]

----------------------------------------------------------------------------
(* The chat_message table with its timestamp column (core/database.py:20-28) *)
(* and HistoryService acting on it.  Time is counted in tenths of a           *)
(* millisecond.                                                               *)

MaxTurns == 6            \* add_turn calls per behaviour of SpecHistory

\* history_service.py:97  timestamp = now + 0.001
ai_offset == 10

\* time.time() of an add_turn call, measured from the reading of the call
\* before it: 0.4 ms or 3 ms later
ClockSteps == {4, 30}

TurnTexts == <<<<"1">>, <<"2">>, <<"3">>, <<"4">>, <<"5">>, <<"6">>, <<"7">>>>

Row(id, sid, role, content, timestamp) ==
    [id |-> id, session_id |-> sid, role |-> role, content |-> content,
     timestamp |-> timestamp]

NoRead == [done |-> FALSE, session_id |-> "s1", raised |-> FALSE, msgs |-> <<>>]

NoTable == [rows |-> <<>>, clock |-> 0, ncalls |-> 0, read |-> NoRead]

IdleTable == tbl = NoTable

\* add_turn on the table: two rows with timestamps now and now + 0.001 in
\* one commit (93-105); a failing commit is logged and writes nothing (110)
table_add_turn(rows, sid, user_query, ai_answer, now, commitRaises) ==
    IF commitRaises THEN rows
    ELSE rows \o <<Row(Len(rows) + 1, sid, "user", user_query, now),
                   Row(Len(rows) + 2, sid, "ai", ai_answer, now + ai_offset)>>

\* ORDER BY timestamp DESC of rows whose timestamps differ
RECURSIVE order_by_timestamp_desc(_)
order_by_timestamp_desc(rowset) ==
    IF rowset = {} THEN <<>>
    ELSE LET newest == CHOOSE r \in rowset : \A o \in rowset : o.timestamp <= r.timestamp
         IN <<newest>> \o order_by_timestamp_desc(rowset \ {newest})

Reversed(s) == [i \in DOMAIN s |-> s[Len(s) + 1 - i]]

statement_limit(sorted, limit_count) == SubSeq(sorted, 1, Min(limit_count, Len(sorted)))

\* get_history_messages on the table (113-148): WHERE session_id, ORDER BY
\* timestamp DESC, LIMIT max_history_len * 2, reversed; [] when it raises
table_get_history_messages(rows, sid, queryRaises) ==
    IF queryRaises THEN <<>>
    ELSE LET mine == {rows[k] : k \in {j \in DOMAIN rows : rows[j].session_id = sid}}
             db_msgs == Reversed(statement_limit(order_by_timestamp_desc(mine),
                                                 max_history_len * 2))
         IN [i \in DOMAIN db_msgs |->
                [role |-> db_msgs[i].role, content |-> db_msgs[i].content]]

----------------------------------------------------------------------------
(* Collaborators of QueryService: LLM, retriever, reranker *)

\* What the condense chain may answer (before strip)
RewriteOutputs == {<<" ", "r", " ">>}

\* What one chunk of chain.astream may be
Tokens == {<<"a", "b", "c">>}

D1 == [page_content |-> <<"m">>]
D2 == [page_content |-> <<"n">>]
Docs == {D1, D2}

\* What retriever.aretrieve may return
RetrievalResults == {<<>>, <<D1, D2>>}

\* The cross-encoder's scores, in hundredths
ScoreTables ==
    {[d \in Docs |-> IF d = D1 THEN 80 ELSE 95],
     [d \in Docs |-> IF d = D1 THEN 90 ELSE 50]}

\* reranker.config.top_k (config/models.py:108, gt=0)
rerank_top_k == 1

\* results.sort(key=lambda x: x[1], reverse=True): stable, descending
RECURSIVE InsertDesc(_, _)
InsertDesc(sorted, x) ==
    IF sorted = <<>> THEN <<x>>
    ELSE IF Head(sorted).score >= x.score
         THEN <<Head(sorted)>> \o InsertDesc(Tail(sorted), x)
         ELSE <<x>> \o sorted

RECURSIVE SortDesc(_)
SortDesc(pairs) ==
    IF pairs = <<>> THEN <<>>
    ELSE InsertDesc(SortDesc(SubSeq(pairs, 1, Len(pairs) - 1)), pairs[Len(pairs)])

\* BGEReranker.rerank (reranker.py:73-85)
rerank(documents, scores) ==
    SortDesc([i \in DOMAIN documents |->
                [doc |-> documents[i], score |-> scores[documents[i]]]])

\* SourceDocument.from_langchain_doc
SourceDocument(pair) ==
    [page_content |-> pair.doc.page_content, score |-> pair.score]

\* _retrieve_and_rerank, lines 119-130, once the reranker has answered
final_docs_rerankedMutNoCut(reranked) ==
    [i \in DOMAIN reranked |-> SourceDocument(reranked[i])]

final_docs_reranked(reranked) ==
    LET cut == SubSeq(reranked, 1, Min(rerank_top_k, Len(reranked)))
    IN [i \in DOMAIN cut |-> SourceDocument(cut[i])]

\* _retrieve_and_rerank, lines 124-130, without reranker or without documents
final_docs_passthrough(retrieved_docs) ==
    [i \in DOMAIN retrieved_docs |->
        SourceDocument([doc |-> retrieved_docs[i], score |-> 100])]

\* "\n\n".join([d.page_content for d in source_docs])
context_textMutRetrieved(l) ==
    join(<<"\n", "\n">>, [i \in DOMAIN l.retrieved_docs |-> l.retrieved_docs[i].page_content])
context_text(l) ==
    join(<<"\n", "\n">>, [i \in DOMAIN l.source_docs |-> l.source_docs[i].page_content])

\* _rewrite_query (95-110) once the condense chain has answered or raised
_rewrite_queryMutNoFallback(query, llm) == strip(llm.text)

_rewrite_query(query, llm) ==
    IF llm.raises THEN query ELSE strip(llm.text)


----------------------------------------------------------------------------
(* One request: trace entries, locals *)

Yielded(type, what, text, docs) ==
    [kind |-> "yield", type |-> type, what |-> what, text |-> text, docs |-> docs]
Call(name, text) ==
    [kind |-> "call", type |-> name, what |-> "", text |-> text, docs |-> <<>>]
Status(what) == Yielded("status", what, EmptyText, <<>>)
Token(t) == Yielded("token", "", t, <<>>)
SourcesEvent(docs) == Yielded("sources", "", EmptyText, docs)
ErrorEvent(what) == Yielded("error", what, EmptyText, <<>>)
\* A collaborator's call ended with an exception
Raise(name) ==
    [kind |-> "raise", type |-> name, what |-> "", text |-> EmptyText, docs |-> <<>>]

\* An exception caught and logged inside the step that met it
Caught(name) ==
    [kind |-> "caught", type |-> name, what |-> "", text |-> EmptyText, docs |-> <<>>]

\* What the history read logs: the exception of the query, caught inside
\* get_history_messages (history_service.py:146-148)
history_entries(queryRaises) ==
    IF queryRaises THEN <<Caught("get_history_messages")>> ELSE <<>>

\* What the rewrite step logs: the exception of the condense chain, caught at
\* lines 108-110
rewrite_entries(llm) == IF llm.raises THEN <<Caught("condense_q_chain")>> ELSE <<>>

InitLoc ==
    [cached_answer |-> EmptyText, i |-> 0, history_msgs |-> <<>>,
     search_query |-> EmptyText, retrieved_docs |-> <<>>, source_docs |-> <<>>,
     full_answer |-> EmptyText, ntok |-> 0, raised |-> "none"]

NoResponse ==
    [returned |-> FALSE, answer |-> EmptyText, source_documents |-> <<>>,
     error |-> [set |-> FALSE, msg |-> ""]]

----------------------------------------------------------------------------
(* Ingestion: the data root, the persisted artifacts and the pure steps of  *)
(* IngestionService.run (services/ingestion_service.py)                     *)

Strategies == {"vector", "bm25", "hybrid"}

\* Relative paths under the data root, in the order rglob lists them
Paths == {"f1", "f2"}
FileOrder == <<"f1", "f2">>

Absent == <<"absent">>
Contents == {<<"a">>, <<"b", "c">>}

\* A vector or lexical index: none (exists = FALSE) or its documents
NoIndex == [exists |-> FALSE, docs |-> <<>>]

\* ingestion_metadata.json: missing, a JSON object path -> hash, or a file
\* json.load cannot parse
NoMetadata == [status |-> "missing", map |-> [p \in {} |-> <<>>]]
Metadata(m) == [status |-> "ok", map |-> m]
CorruptMetadata == [status |-> "corrupt", map |-> [p \in {} |-> <<>>]]

\* _get_file_hash (48-54): SHA-256 of the content; distinct contents have
\* distinct digests
_get_file_hash(content) == <<"sha256">> \o content

\* _load_metadata (56-61): {} without the file, else the parsed object
_load_metadata(file) == IF file.status = "ok" THEN file.map ELSE [p \in {} |-> <<>>]

\* processed_files_meta.clear() under force_rebuild (79-81)
meta_at_start(file, force_rebuild) ==
    IF force_rebuild THEN [p \in {} |-> <<>>] ELSE _load_metadata(file)

\* dict.get(key): None is the empty text here
dict_get(m, key) == IF key \in DOMAIN m THEN m[key] ELSE <<>>

\* dict[key] = value
dict_set(m, key, value) == [k \in DOMAIN m \cup {key} |-> IF k = key THEN value ELSE m[k]]

\* all_files_in_source (86-88): the files present, in listing order
all_files_in_source(dir) == SelectSeq(FileOrder, LAMBDA p : dir[p] # Absent)

\* DirectoryLoader.load_single_file (document_loader.py:109-122): the
\* documents of the file, or [] when the loader raised (logged, 120-122)
LoadedDocument(path, content) == [page_content |-> content, source |-> path]
load_single_file(path, content, loaderRaises) ==
    IF loaderRaises THEN <<>> ELSE <<LoadedDocument(path, content)>>

\* The change test of run (99)
is_changedMutByPath(meta, file_rel_path, file_hash, force_rebuild) ==
    file_rel_path \notin DOMAIN meta \/ force_rebuild
is_changed(meta, file_rel_path, file_hash, force_rebuild) ==
    dict_get(meta, file_rel_path) # file_hash \/ force_rebuild

\* text_splitter.split_documents (text_splitter.py:39-45): the chunks of the
\* documents in order; a chunk holds splitter_chunk_size characters of one
\* document and keeps its metadata
splitter_chunk_size == 1

RECURSIVE split_text(_, _)
split_text(doc, text) ==
    IF text = <<>> THEN <<>>
    ELSE <<[page_content |-> SubSeq(text, 1, Min(splitter_chunk_size, Len(text))),
            source |-> doc.source]>>
         \o split_text(doc, SubSeq(text, Min(splitter_chunk_size, Len(text)) + 1, Len(text)))

RECURSIVE split_documents(_)
split_documents(documents) ==
    IF documents = <<>> THEN <<>>
    ELSE split_text(Head(documents), Head(documents).page_content)
         \o split_documents(Tail(documents))

\* The run record: position, argument, locals, what the run wrote, how it
\* ended, and the stores as the run found them
NoException == [type |-> "none", cause |-> "none"]
DataProcessingError(cause) == [type |-> "DataProcessingError", cause |-> cause]
OtherException(cause) == [type |-> "Exception", cause |-> cause]

Snapshot ==
    [data_dir |-> data_dir, metadata_file |-> metadata_file,
     faiss_store |-> faiss_store, faiss_index_file |-> faiss_index_file,
     bm25_index_file |-> bm25_index_file]

NoRun ==
    [pc |-> "idle", force_rebuild |-> FALSE,
     processed_files_meta |-> [p \in {} |-> <<>>],
     todo |-> <<>>, changed |-> {}, unloaded |-> {},
     new_or_updated_docs |-> <<>>, all_current_docs |-> <<>>, chunks |-> <<>>,
     writes |-> {}, swallowed |-> {}, early |-> FALSE, exc |-> NoException,
     forced |-> FALSE,
     atStart |-> [data_dir |-> [p \in Paths |-> Absent], metadata_file |-> NoMetadata,
                  faiss_store |-> NoIndex, faiss_index_file |-> NoIndex,
                  bm25_index_file |-> NoIndex],
     prev |-> [pc |-> "idle", committed |-> FALSE, early |-> FALSE,
               data_dir |-> [p \in Paths |-> Absent]]]

\* The application after construction on an empty data root and a fresh
\* persist directory
IdleIngestion ==
    /\ strategy = "hybrid"
    /\ data_dir = [p \in Paths |-> Absent]
    /\ metadata_file = NoMetadata
    /\ faiss_store = NoIndex
    /\ faiss_index_file = NoIndex
    /\ bm25_index_file = NoIndex
    /\ nruns = 0
    /\ ing = NoRun

\* The retrievers of the serving process (application.py:121-178): none
\* while no server runs; else the BM25 index its BM25Retriever unpickled at
\* startup, the documents of the FAISS object its VectorRetriever was made
\* from, whether that object still is FaissVectorStore._faiss_store, and
\* what its last query retrieved from.
NoQuery == [done |-> FALSE, run |-> 0, bm25 |-> NoIndex, vector |-> NoIndex]

NotServing ==
    [constructed |-> FALSE, query_service |-> FALSE, started_at |-> 0,
     bm25 |-> NoIndex, vector |-> NoIndex, bound |-> FALSE, seen |-> NoQuery]

IdleServing == srv = NotServing

\* RetrieverFactory.create (retrievers/factory.py:43-71): whether it returns
\* a retriever; it raises InitializationError without a BM25 index file
\* (48-51, 59-62) or with an uninitialized vector store (vector.py:27-28)
retriever_created(s, vector_store, bm25_file, loadRaises) ==
    /\ s \in {"bm25", "hybrid"} => (bm25_file.exists /\ ~loadRaises)
    /\ s \in {"vector", "hybrid"} => vector_store.exists

\* The serving process once the application is initialized
Serving(s, vector_store, bm25_file, loadRaises, runs) ==
    LET created == retriever_created(s, vector_store, bm25_file, loadRaises)
    IN [constructed |-> TRUE, query_service |-> created, started_at |-> runs,
        bm25 |-> IF created /\ s \in {"bm25", "hybrid"} THEN bm25_file ELSE NoIndex,
        vector |-> IF created /\ s \in {"vector", "hybrid"} THEN vector_store ELSE NoIndex,
        bound |-> created /\ s \in {"vector", "hybrid"},
        seen |-> NoQuery]

\* What the vector step of run does to the FAISS object the VectorRetriever
\* holds: add_documents changes the object in place (vector_store.py:76),
\* build_from_documents assigns a new object to _faiss_store (66) and leaves
\* the retriever with the old one
retriever_after_vector_update(s, rebuilt, res) ==
    IF ~s.bound \/ res.exc # "none" THEN s
    ELSE IF rebuilt THEN [s EXCEPT !.bound = FALSE]
    ELSE [s EXCEPT !.vector = res.store]

----------------------------------------------------------------------------
(* EnsembleRetriever and HybridRetriever *)

\* A chunk as a sub-retriever returns it: its text and the file it is from
Chunk(page_content, source) == [page_content |-> page_content, source |-> source]

\* The chunks of the corpus; f1 and f2 both hold a chunk with the text A
Chunks ==
    {Chunk(<<"A">>, "f1"), Chunk(<<"A">>, "f2"), Chunk(<<"B">>, "f1"),
     Chunk(<<"C">>, "f2"), Chunk(<<"D">>, "f2")}

MaxDocs == 2             \* documents one sub-retriever returns at most

\* What a sub-retriever may return: up to MaxDocs different chunks, best first
RankedLists ==
    UNION {{l \in [1..n -> Chunks] : \A i, j \in 1..n : i # j => l[i] # l[j]} :
           n \in 0..MaxDocs}

NoRepeatedText(docs) ==
    \A i, j \in DOMAIN docs : i # j => docs[i].page_content # docs[j].page_content

\* HybridRetrieverConfig: the weights in hundredths, and top_k
HybridRetrieverConfig(bm25_weight, vector_weight, top_k) ==
    [bm25_weight |-> bm25_weight, vector_weight |-> vector_weight, top_k |-> top_k]

HybridConfigs ==
    {HybridRetrieverConfig(w[1], w[2], k) :
        w \in {<<60, 40>>, <<50, 50>>, <<0, 100>>}, k \in {1, 2, 3}}

\* weights = [hybrid_config.bm25_weight, hybrid_config.vector_weight]
weights_of(config) == <<config.bm25_weight, config.vector_weight>>

\* The outcome of one sub-retriever's invoke / ainvoke
InvokeReturned(docs) == [status |-> "returned", docs |-> docs]
InvokeRaised == [status |-> "raised", docs |-> <<>>]
InvokePending == [status |-> "pending", docs |-> <<>>]

\* The scores are binary floating-point numbers in the code and exact
\* fractions here.  Weights that are multiples of 1/4 make every product and
\* sum of the fusion exact in binary; with the weights 0.6 and 0.4 the rounded
\* totals are ordered as the exact ones as long as no two exact totals are
\* equal, which lists without a repeated text of at most two documents ensure.
BinaryWeights(config) ==
    config.bm25_weight % 25 = 0 /\ config.vector_weight % 25 = 0

RetrieverOutcomes(config) ==
    {InvokeRaised} \cup {InvokeReturned(l) : l \in {d \in RankedLists :
                                          BinaryWeights(config) \/ NoRepeatedText(d)}}

\* doc_key = doc.page_content (53, 112)
doc_keyMutWholeDoc(doc) == doc

doc_key(doc) == doc.page_content

\* score = current_weight * (1.0 / (rank + 1)) (57, 113), rank counted from
\* 0; in units of 1/6000 for a weight in hundredths
score(current_weight, rank) == current_weight * (60 \div (rank + 1))

\* The dict doc_scores as the sequence of its values in insertion order.
\* Lines 59-65: add to the entry of the key, or insert a new entry at the end.
add_score(doc_scores, doc, s) ==
    IF \E i \in DOMAIN doc_scores : doc_scores[i].key = doc_key(doc)
    THEN [i \in DOMAIN doc_scores |->
            IF doc_scores[i].key = doc_key(doc)
            THEN [doc_scores[i] EXCEPT !.score = @ + s]
            ELSE doc_scores[i]]
    ELSE Append(doc_scores, [key |-> doc_key(doc), score |-> s, doc |-> doc])

\* for rank, doc in enumerate(docs) (50-65)
RECURSIVE rank_docs(_, _, _, _)
rank_docs(doc_scores, docs, rank, current_weight) ==
    IF rank >= Len(docs) THEN doc_scores
    ELSE rank_docs(add_score(doc_scores, docs[rank + 1], score(current_weight, rank)),
                   docs, rank + 1, current_weight)

\* for retriever_idx, docs in enumerate(all_docs_by_retriever) (45-65; the
\* asynchronous path repeats the loop at 108-117)
RECURSIVE rank_lists(_, _, _, _)
rank_lists(doc_scores, lists, retriever_idx, weights) ==
    IF retriever_idx >= Len(lists) THEN doc_scores
    ELSE rank_lists(rank_docs(doc_scores, lists[retriever_idx + 1], 0,
                              weights[retriever_idx + 1]),
                    lists, retriever_idx + 1, weights)

\* sorted(doc_scores.values(), key=lambda x: x["score"], reverse=True): the
\* sort is stable, so entries of equal score stay in insertion order
sorted_docsMutUnstable(doc_scores) ==
    SortDesc([i \in DOMAIN doc_scores |-> doc_scores[Len(doc_scores) + 1 - i]])

sorted_docs(doc_scores) == SortDesc(doc_scores)

\* Lines 33-41: a retriever whose invoke raises counts as an empty list
all_docs_by_retriever(outcomes) ==
    [i \in DOMAIN outcomes |->
        IF outcomes[i].status = "raised" THEN <<>> ELSE outcomes[i].docs]

\* Lines 92-100: gather hands back the exception of a task that raised, and
\* whatever is not a list counts as an empty list
valid_resultsMutDropAll(results) == [i \in DOMAIN results |-> <<>>]

valid_results(results) ==
    [i \in DOMAIN results |->
        IF results[i].status = "returned" THEN results[i].docs ELSE <<>>]

\* The entries of doc_scores as _get_relevant_documents sorts them
fused(outcomes, weights) ==
    sorted_docs(rank_lists(<<>>, all_docs_by_retriever(outcomes), 0, weights))

\* The entries of doc_scores as _aget_relevant_documents sorts them
afused(outcomes, weights) ==
    sorted_docs(rank_lists(<<>>, valid_results(outcomes), 0, weights))

\* return [item["doc"] for item in sorted_docs]
_get_relevant_documents(outcomes, weights) ==
    [i \in DOMAIN fused(outcomes, weights) |-> fused(outcomes, weights)[i].doc]

_aget_relevant_documents(outcomes, weights) ==
    [i \in DOMAIN afused(outcomes, weights) |-> afused(outcomes, weights)[i].doc]

\* HybridRetriever.retrieve: results[:self.config.top_k]
retrieve(config, outcomes) ==
    Slice(_get_relevant_documents(outcomes, weights_of(config)), 0, config.top_k)

\* HybridRetriever.aretrieve
aretrieve(config, outcomes) ==
    Slice(_aget_relevant_documents(outcomes, weights_of(config)), 0, config.top_k)

\* A HybridRetriever that has not been called
NoCall(config) ==
    [config |-> config, pc |-> "idle", path |-> "none",
     outcomes |-> <<InvokePending, InvokePending>>, doc_scores |-> <<>>,
     results |-> <<>>]

IdleHybrid == hyb = NoCall(HybridRetrieverConfig(60, 40, 2))

\* No call of ask has returned before the request in flight
NoPrevious ==
    [returned |-> FALSE, query |-> EmptyText, session_id |-> "s1",
     answer |-> EmptyText, error |-> FALSE, history |-> <<>>]

IdleRequest ==
    /\ history = <<>>
    /\ nreq = 0
    /\ req = [query |-> EmptyText, session_id |-> "s1"]
    /\ stPc = "idle"
    /\ loc = InitLoc
    /\ trace = <<>>
    /\ wire = <<>>
    /\ wHist = "none"
    /\ atStart = [history |-> <<>>, store |-> NoStore, disk |-> NoStore,
                  previous |-> NoPrevious]
    /\ resp = NoResponse

----------------------------------------------------------------------------
(* chat_stream_endpoint.event_generator (api/main.py:271-285) *)

\* The wire once ask_stream has run to its next suspension point pc, having
\* logged `entries`.  Every yielded event is forwarded as one SSE line;
\* `caught` says that an exception reached the except clause (279-282:
\* json.dumps raised on the event just yielded, or ask_stream raised), which
\* sends an error line instead; after the loop or the except clause comes
\* the [DONE] line (285).
YieldTypes(entries) ==
    LET ys == SelectSeq(entries, LAMBDA e : e.kind = "yield")
    IN [k \in DOMAIN ys |-> ys[k].type]

event_generatorMutDoneInTry(w, entries, pc, caught) ==
    LET ys == YieldTypes(entries)
        sent == IF caught /\ ys # <<>> THEN SubSeq(ys, 1, Len(ys) - 1) ELSE ys
    IN w \o sent \o (IF caught THEN <<"error">> ELSE <<>>)
         \o (IF pc = "done" /\ ~("error" \in {w[k] : k \in DOMAIN w}) THEN <<"[DONE]">> ELSE <<>>)
event_generator(w, entries, pc, caught) ==
    LET ys == YieldTypes(entries)
        sent == IF caught /\ ys # <<>> THEN SubSeq(ys, 1, Len(ys) - 1) ELSE ys
    IN w \o sent \o (IF caught THEN <<"error">> ELSE <<>>)
         \o (IF pc = "done" THEN <<"[DONE]">> ELSE <<>>)

----------------------------------------------------------------------------
(* QueryService.ask_stream (query_service.py:165-248) *)

MaxRequests == 2         \* requests per behaviour
MaxTokens == 2           \* chunks the LLM streams per request

StreamQueries == {Q1, Q3}

\* ask_stream runs to its next suspension point
Run(pc, newLoc, entries, caught) ==
    /\ stPc' = pc
    /\ loc' = newLoc
    /\ trace' = trace \o entries
    /\ wire' = event_generator(wire, entries, pc, caught)

CacheIdle == UNCHANGED <<store, disk, updPc, updDoc, updLog, lastOp>>

\* except Exception as e: yield {"type": "error", ...} (246-248)
ask_stream_exceptMutPropagate(newLoc, entries, what) ==
    Run("eg_error", [newLoc EXCEPT !.raised = what], entries, TRUE)
ask_stream_except(newLoc, entries, what) ==
    Run("y_error", [newLoc EXCEPT !.raised = what],
        entries \o <<ErrorEvent(what)>>, FALSE)

\* What ask_stream does before its first await (172-183)
ask_stream_prologueMutStatusFirst(query) ==
    <<Status("rewriting")>>
ask_stream_prologue(query) ==
    <<>>

\* Where the generator is once the cache-hit branch has stored the turn:
\* `return` (196)
hit_returnMutFallThrough == "get_history"
hit_return == "done"

\* A request arrives: event_generator starts ask_stream, which runs to its
\* first await: the cache lookup (183), or without cache the history read.
StreamStart ==
    /\ stPc \in {"idle", "done", "cancelled"}
    /\ nreq < MaxRequests
    /\ nreq' = nreq + 1
    /\ \E q \in StreamQueries, sid \in StreamSessions :
         /\ req' = [query |-> q, session_id |-> sid]
         /\ trace' = ask_stream_prologue(q)
                       \o <<IF cfg.cache THEN Call("lookup", q)
                            ELSE Call("get_history_messages", EmptyText)>>
         /\ wire' = YieldTypes(ask_stream_prologue(q))
    /\ stPc' = IF cfg.cache THEN "lookup" ELSE "get_history"
    /\ loc' = InitLoc
    /\ atStart' = [history |-> history, store |-> store, disk |-> disk,
                   previous |-> NoPrevious]
    /\ lookupRes' = NoLookup
    /\ wHist' = "none"
    /\ CacheIdle
    /\ UNCHANGED <<history, cfg, ingestVars, hybridVars, concVars, tableVars, servingVars, resp>>

\* The lookup returns (183-186, 201)
LookupDone ==
    /\ stPc = "lookup"
    /\ \E searchRaises \in BOOLEAN :
         \E r \in lookup(store, req.query, searchRaises) :
            /\ lookupRes' = [query |-> req.query, searchRaises |-> searchRaises, res |-> r]
            /\ IF r.raised
               THEN ask_stream_except(loc, <<>>, "lookup")
               ELSE IF r.hit /\ r.answer # EmptyText
               THEN Run("y_hit_status", [loc EXCEPT !.cached_answer = r.answer],
                        <<Status("cache_hit")>>, FALSE)
               ELSE Run("get_history", loc,
                        <<Call("get_history_messages", EmptyText)>>, FALSE)
    /\ CacheIdle
    /\ UNCHANGED <<history, cfg, ingestVars, hybridVars, concVars, tableVars, servingVars, nreq, req, wHist, atStart, resp>>

\* Resumed after status(cache hit): the first chunk (189-191)
chunk_size == 5

HitStatusResumed ==
    /\ stPc = "y_hit_status"
    /\ Run("y_hit_token", [loc EXCEPT !.i = 0],
           <<Token(Slice(loc.cached_answer, 0, chunk_size))>>, FALSE)
    /\ CacheIdle
    /\ UNCHANGED <<lookupRes, history, cfg, ingestVars, hybridVars, concVars, tableVars, servingVars, nreq, req, wHist, atStart, resp>>

\* Resumed after a chunk: await asyncio.sleep(0.01) (192)
HitTokenResumed ==
    /\ stPc = "y_hit_token"
    /\ Run("hit_sleep", loc, <<>>, FALSE)
    /\ CacheIdle
    /\ UNCHANGED <<lookupRes, history, cfg, ingestVars, hybridVars, concVars, tableVars, servingVars, nreq, req, wHist, atStart, resp>>

\* The sleep ends: the next chunk, or after the last one add_turn (190-195)
HitSleepDone ==
    /\ stPc = "hit_sleep"
    /\ LET i == loc.i + chunk_size
       IN IF i < Len(loc.cached_answer)
          THEN Run("y_hit_token", [loc EXCEPT !.i = i],
                   <<Token(Slice(loc.cached_answer, i, chunk_size))>>, FALSE)
          ELSE Run("hit_add_turn", [loc EXCEPT !.i = i],
                   <<Call("add_turn", loc.cached_answer)>>, FALSE)
    /\ CacheIdle
    /\ UNCHANGED <<lookupRes, history, cfg, ingestVars, hybridVars, concVars, tableVars, servingVars, nreq, req, wHist, atStart, resp>>

\* add_turn of the cache-hit branch returns, then `return` (195-196)
HitAddTurnDone ==
    /\ stPc = "hit_add_turn"
    /\ \E commitRaises \in BOOLEAN :
         history' = add_turn(history, req.session_id, req.query,
                             loc.cached_answer, commitRaises)
    /\ IF hit_return = "done"
       THEN Run("done", loc, <<>>, FALSE)
       ELSE Run(hit_return, loc, <<Call("get_history_messages", EmptyText)>>, FALSE)
    /\ CacheIdle
    /\ UNCHANGED <<lookupRes, cfg, ingestVars, hybridVars, concVars, tableVars, servingVars, nreq, req, wHist, atStart, resp>>

\* get_history_messages returns; yield status(understanding) (201-204)
GetHistoryDone ==
    /\ stPc = "get_history"
    /\ \E queryRaises \in BOOLEAN :
         Run("y_understanding",
             [loc EXCEPT !.history_msgs =
                 get_history_messages(history, req.session_id, queryRaises)],
             <<Status("understanding")>>, FALSE)
    /\ CacheIdle
    /\ UNCHANGED <<lookupRes, history, cfg, ingestVars, hybridVars, concVars, tableVars, servingVars, nreq, req, wHist, atStart, resp>>

\* Resumed: _rewrite_query is called (205); with no history it returns the
\* query at once (97-98) and status(searching) is yielded (208), otherwise
\* it awaits the condense chain (101).
UnderstandingResumed ==
    /\ stPc = "y_understanding"
    /\ IF loc.history_msgs = <<>>
       THEN Run("y_searching", [loc EXCEPT !.search_query = req.query],
                <<Call("_rewrite_query", req.query), Status("searching")>>, FALSE)
       ELSE Run("rewrite", loc,
                <<Call("_rewrite_query", req.query),
                  Call("condense_q_chain", req.query)>>, FALSE)
    /\ CacheIdle
    /\ UNCHANGED <<lookupRes, history, cfg, ingestVars, hybridVars, concVars, tableVars, servingVars, nreq, req, wHist, atStart, resp>>

LLMRewrites ==
    {[raises |-> TRUE, text |-> EmptyText]}
      \cup {[raises |-> FALSE, text |-> t] : t \in RewriteOutputs}

\* The condense chain answers or raises (101-110); yield status(searching)
RewriteDone ==
    /\ stPc = "rewrite"
    /\ \E llm \in LLMRewrites :
         Run("y_searching",
             [loc EXCEPT !.search_query = _rewrite_query(req.query, llm)],
             rewrite_entries(llm) \o <<Status("searching")>>, FALSE)
    /\ CacheIdle
    /\ UNCHANGED <<lookupRes, history, cfg, ingestVars, hybridVars, concVars, tableVars, servingVars, nreq, req, wHist, atStart, resp>>

\* Resumed: _retrieve_and_rerank awaits the retriever (209, 115)
SearchingResumed ==
    /\ stPc = "y_searching"
    /\ Run("aretrieve", loc, <<Call("aretrieve", loc.search_query)>>, FALSE)
    /\ CacheIdle
    /\ UNCHANGED <<lookupRes, history, cfg, ingestVars, hybridVars, concVars, tableVars, servingVars, nreq, req, wHist, atStart, resp>>

\* yield {"type": "sources", ...} (213-214); json.dumps of the event may raise
\* in event_generator (278)
YieldSources(newLoc) ==
    \E dumpsRaises \in BOOLEAN :
       Run(IF dumpsRaises THEN "eg_error" ELSE "y_sources", newLoc,
           <<SourcesEvent(newLoc.source_docs)>>, dumpsRaises)

\* The retriever returns or raises (115-124)
RetrieveDone ==
    /\ stPc = "aretrieve"
    /\ \/ ask_stream_except(loc, <<>>, "aretrieve")
       \/ \E docs \in RetrievalResults :
            IF cfg.reranker /\ docs # <<>>
            THEN Run("arerank", [loc EXCEPT !.retrieved_docs = docs],
                     <<Call("arerank", loc.search_query)>>, FALSE)
            ELSE YieldSources([loc EXCEPT !.retrieved_docs = docs,
                                          !.source_docs = final_docs_passthrough(docs)])
    /\ CacheIdle
    /\ UNCHANGED <<lookupRes, history, cfg, ingestVars, hybridVars, concVars, tableVars, servingVars, nreq, req, wHist, atStart, resp>>

\* The reranker returns or raises (121-122, reranker.py:87-94)
RerankDone ==
    /\ stPc = "arerank"
    /\ \/ ask_stream_except(loc, <<>>, "arerank")
       \/ \E scores \in ScoreTables :
            YieldSources([loc EXCEPT !.source_docs =
                             final_docs_reranked(rerank(loc.retrieved_docs, scores))])
    /\ CacheIdle
    /\ UNCHANGED <<lookupRes, history, cfg, ingestVars, hybridVars, concVars, tableVars, servingVars, nreq, req, wHist, atStart, resp>>

\* Resumed after sources: yield status(thinking) (217)
SourcesResumed ==
    /\ stPc = "y_sources"
    /\ Run("y_thinking", loc, <<Status("thinking")>>, FALSE)
    /\ CacheIdle
    /\ UNCHANGED <<lookupRes, history, cfg, ingestVars, hybridVars, concVars, tableVars, servingVars, nreq, req, wHist, atStart, resp>>

\* Resumed: the context is built and chain.astream is entered (218-226)
ThinkingResumed ==
    /\ stPc = "y_thinking"
    /\ Run("astream", loc, <<Call("astream", context_text(loc))>>, FALSE)
    /\ CacheIdle
    /\ UNCHANGED <<lookupRes, history, cfg, ingestVars, hybridVars, concVars, tableVars, servingVars, nreq, req, wHist, atStart, resp>>

\* `if full_answer:` (236)
writes_guardMutAlways(full_answer) == TRUE
writes_guard(full_answer) == full_answer # EmptyText

\* astream gives a chunk (227-229), ends (236-243) or raises (246-248)
AstreamChunk ==
    /\ stPc = "astream"
    /\ loc.ntok < MaxTokens
    /\ \E t \in Tokens :
         Run("y_token", [loc EXCEPT !.full_answer = @ \o t, !.ntok = @ + 1],
             <<Token(t)>>, FALSE)
    /\ CacheIdle
    /\ UNCHANGED <<lookupRes, history, cfg, ingestVars, hybridVars, concVars, tableVars, servingVars, nreq, req, wHist, atStart, resp>>

AstreamRaises ==
    /\ stPc = "astream"
    /\ ask_stream_except(loc, <<>>, "astream")
    /\ CacheIdle
    /\ UNCHANGED <<lookupRes, history, cfg, ingestVars, hybridVars, concVars, tableVars, servingVars, nreq, req, wHist, atStart, resp>>

\* astream ends.  With an answer, asyncio.gather starts both children, each
\* running to its first await: add_turn to its commit, update to its worker
\* thread (or sleep(0) without cache).  With no answer the generator ends.
\* The key of the cache entry ask_stream writes: the original question, not
\* the rewritten one (237-238, 242)
update_keyMutRewritten(query, search_query) == search_query
update_key(query, search_query) == query

AstreamEnds ==
    /\ stPc = "astream"
    /\ IF writes_guard(loc.full_answer)
       THEN /\ Run("gather", loc,
                   <<Call("add_turn", loc.full_answer)>>
                     \o (IF cfg.cache THEN <<Call("update", loc.full_answer)>> ELSE <<>>),
                   FALSE)
            /\ wHist' = "commit"
            /\ IF cfg.cache
               THEN UpdateCall(update_key(req.query, loc.search_query), loc.full_answer)
               ELSE UNCHANGED <<updPc, updDoc>>
       ELSE /\ Run("done", loc, <<>>, FALSE)
            /\ UNCHANGED <<wHist, updPc, updDoc>>
    /\ UNCHANGED <<store, disk, updLog, lastOp>>
    /\ UNCHANGED <<lookupRes, history, cfg, ingestVars, hybridVars, concVars, tableVars, servingVars, nreq, req, atStart, resp>>

\* Resumed after a token: back into astream (223)
TokenResumed ==
    /\ stPc = "y_token"
    /\ Run("astream", loc, <<>>, FALSE)
    /\ CacheIdle
    /\ UNCHANGED <<lookupRes, history, cfg, ingestVars, hybridVars, concVars, tableVars, servingVars, nreq, req, wHist, atStart, resp>>

\* The add_turn child of gather commits (history_service.py:103-111)
GatherAddTurnDone ==
    /\ stPc = "gather"
    /\ wHist = "commit"
    /\ \E commitRaises \in BOOLEAN :
         history' = add_turn(history, req.session_id, req.query,
                             loc.full_answer, commitRaises)
    /\ wHist' = "done"
    /\ CacheIdle
    /\ UNCHANGED <<lookupRes, cfg, ingestVars, hybridVars, concVars, tableVars, servingVars, nreq, req, stPc, loc, trace, wire, atStart, resp>>

\* The update child of gather: its worker threads end
GatherUpdateIndexed ==
    /\ stPc = "gather"
    /\ \E raises \in BOOLEAN : UpdateIndexed(raises)
    /\ UNCHANGED <<disk, updDoc, updLog, lastOp>>
    /\ UNCHANGED <<lookupRes, history, cfg, ingestVars, hybridVars, concVars, tableVars, servingVars, nreq, req, stPc, loc, trace, wire,
                   wHist, atStart, resp>>

GatherUpdateSaved ==
    /\ stPc = "gather"
    /\ \E raises \in BOOLEAN : UpdateSaved(raises)
    /\ UNCHANGED <<store, updDoc, updLog, lastOp>>
    /\ UNCHANGED <<lookupRes, history, cfg, ingestVars, hybridVars, concVars, tableVars, servingVars, nreq, req, stPc, loc, trace, wire,
                   wHist, atStart, resp>>

\* Both children are done: gather returns and the generator ends (240-244)
GatherDone ==
    /\ stPc = "gather"
    /\ wHist = "done"
    /\ updPc = "idle"
    /\ Run("done", loc, <<>>, FALSE)
    /\ wHist' = "none"
    /\ CacheIdle
    /\ UNCHANGED <<lookupRes, history, cfg, ingestVars, hybridVars, concVars, tableVars, servingVars, nreq, req, atStart, resp>>

\* Resumed after the error event: the generator ends (248)
ErrorResumed ==
    /\ stPc = "y_error"
    /\ Run("done", loc, <<>>, FALSE)
    /\ CacheIdle
    /\ UNCHANGED <<lookupRes, history, cfg, ingestVars, hybridVars, concVars, tableVars, servingVars, nreq, req, wHist, atStart, resp>>

\* event_generator resumed after its own error line (main.py:282-285)
EventGeneratorErrorResumed ==
    /\ stPc = "eg_error"
    /\ Run("done", loc, <<>>, FALSE)
    /\ CacheIdle
    /\ UNCHANGED <<lookupRes, history, cfg, ingestVars, hybridVars, concVars, tableVars, servingVars, nreq, req, wHist, atStart, resp>>

\* The suspension points at which the request can be cancelled: the consumer
\* closes the generator at a yield (GeneratorExit), or the task is cancelled
\* at an await (CancelledError).  Neither is an Exception, so no handler of
\* ask_stream or event_generator runs.
AtYield == stPc \in {"y_hit_status", "y_hit_token", "y_understanding", "y_searching",
                     "y_sources", "y_thinking", "y_token", "y_error", "eg_error"}
AtAwait == stPc \in {"lookup", "hit_sleep", "get_history", "rewrite", "aretrieve",
                     "arerank", "astream"}

CancelBeforeWrites ==
    /\ AtYield \/ AtAwait
    /\ stPc' = "cancelled"
    /\ CacheIdle
    /\ UNCHANGED <<lookupRes, history, cfg, ingestVars, hybridVars, concVars, tableVars, servingVars, nreq, req, loc, trace, wire, wHist,
                   atStart, resp>>

\* Cancelled while awaiting add_turn on the cache-hit path (195): the commit
\* handed to the database thread may or may not have been carried out.
CancelInHitAddTurn ==
    /\ stPc = "hit_add_turn"
    /\ stPc' = "cancelled"
    /\ \E landed \in BOOLEAN :
         history' = add_turn(history, req.session_id, req.query,
                             loc.cached_answer, ~landed)
    /\ CacheIdle
    /\ UNCHANGED <<lookupRes, cfg, ingestVars, hybridVars, concVars, tableVars, servingVars, nreq, req, loc, trace, wire, wHist, atStart, resp>>

\* Cancelled while awaiting gather (240): gather cancels its children.  What
\* a child has already done stays; a worker thread that runs cannot be
\* stopped (asyncio.to_thread), and whether a queued one still runs is not
\* determined.  The assignment self._store = ... (115) needs the coroutine
\* and so never happens after the cancellation.
CancelInGather ==
    /\ stPc = "gather"
    /\ stPc' = "cancelled"
    /\ wHist' = "none"
    /\ updPc' = "idle"
    /\ \E histLands \in BOOLEAN, threadRuns \in BOOLEAN :
         /\ history' = IF wHist = "commit"
                       THEN add_turn(history, req.session_id, req.query,
                                     loc.full_answer, ~histLands)
                       ELSE history
         /\ store' = IF updPc = "add_documents" /\ threadRuns
                     THEN IndexAfter(store, FALSE, updDoc)
                     ELSE store
         /\ disk' = IF updPc = "save_local" /\ threadRuns THEN store ELSE disk
    /\ UNCHANGED <<updDoc, updLog, lastOp>>
    /\ UNCHANGED <<lookupRes, cfg, ingestVars, hybridVars, concVars, tableVars, servingVars, nreq, req, loc, trace, wire, atStart, resp>>

InitStream ==
    /\ store = NoStore
    /\ disk = NoStore
    /\ updPc = "idle"
    /\ updDoc = Document(EmptyText, EmptyText)
    /\ lookupRes = NoLookup
    /\ updLog = {}
    /\ lastOp = "init"
    /\ cfg \in {[reranker |-> r, cache |-> TRUE] : r \in BOOLEAN}
    /\ IdleRequest
    /\ IdleIngestion
    /\ IdleHybrid
    /\ IdleConcurrent
    /\ IdleTable
    /\ IdleServing

StreamStep ==
    \/ LookupDone
    \/ HitStatusResumed
    \/ HitTokenResumed
    \/ HitSleepDone
    \/ HitAddTurnDone
    \/ GetHistoryDone
    \/ UnderstandingResumed
    \/ RewriteDone
    \/ SearchingResumed
    \/ RetrieveDone
    \/ RerankDone
    \/ SourcesResumed
    \/ ThinkingResumed
    \/ AstreamChunk
    \/ AstreamRaises
    \/ AstreamEnds
    \/ TokenResumed
    \/ GatherAddTurnDone
    \/ GatherUpdateIndexed
    \/ GatherUpdateSaved
    \/ GatherDone
    \/ ErrorResumed
    \/ EventGeneratorErrorResumed

Cancel ==
    \/ CancelBeforeWrites
    \/ CancelInHitAddTurn
    \/ CancelInGather

Next ==
    \/ StreamStart
    \/ StreamStep
    \/ Cancel

Spec == InitStream /\ [][Next]_vars

\* Every step of a request is an event-loop callback that runs once its await
\* has returned or raised; cancellation and new requests are up to the client.
FairSpec == Spec /\ WF_vars(StreamStep)

----------------------------------------------------------------------------
(* Properties of ask_stream and event_generator *)

Yields(tr) == SelectSeq(tr, LAMBDA e : e.kind = "yield")

Positions(tr, kind, type) ==
    {k \in DOMAIN tr : tr[k].kind = kind /\ tr[k].type = type}

StatusPositions(tr, what) ==
    {k \in Positions(tr, "yield", "status") : tr[k].what = what}

RECURSIVE Concat(_)
Concat(texts) == IF texts = <<>> THEN <<>> ELSE Head(texts) \o Concat(Tail(texts))

\* The contents of the token events, in order, put together
TokenText(tr) ==
    LET toks == SelectSeq(tr, LAMBDA e : e.kind = "yield" /\ e.type = "token")
    IN Concat([k \in DOMAIN toks |-> toks[k].text])

OnMissPath == stPc # "idle" /\ loc.cached_answer = EmptyText

\* C2: when a step of ask_stream raises, an error event is yielded; an error
\* event is always the last event yielded, so there is exactly one and no
\* status, sources or token event follows it.
C2_ErrorEventIsLast ==
    LET ys == Yields(trace)
    IN /\ \A k \in DOMAIN ys : ys[k].type = "error" => k = Len(ys)
       /\ loc.raised # "none" => (ys # <<>> /\ ys[Len(ys)].type = "error")

\* C2 witness: generation raised after a token had been emitted, and the
\* stream has ended.
C2_Witness ==
    /\ stPc = "done"
    /\ loc.raised = "astream"
    /\ loc.ntok >= 1

StreamActive == stPc \notin {"idle", "done", "cancelled"}
StreamEndedWithDone ==
    /\ stPc = "done"
    /\ wire # <<>>
    /\ wire[Len(wire)] = "[DONE]"
    /\ \A k \in 1 .. (Len(wire) - 1) : wire[k] # "[DONE]"

\* C3: a streaming request that is not cancelled terminates, and when it has
\* terminated the wire ends with the [DONE] line, after a normal end as well
\* as after an error.
C3_StreamTerminates ==
    /\ [](stPc = "done" => StreamEndedWithDone)
    /\ StreamActive ~> (stPc = "cancelled" \/ StreamEndedWithDone)

\* C3 witness: a stream that ended after an error event, [DONE] last.
C3_Witness ==
    /\ StreamEndedWithDone
    /\ loc.raised # "none"

\* C4: a cancelled streaming request has committed no history turn and no
\* cache entry.
C4_NoCommitOnCancel ==
    stPc = "cancelled" =>
        /\ history = atStart.history
        /\ store = atStart.store
        /\ disk = atStart.disk

\* C5: on a cache miss, history and cache are written only once generation
\* has run to its end without raising, the answer is not empty, and what is
\* written is the concatenation of the token events.
C5_WritesOnlyFullAnswer ==
    OnMissPath =>
      LET answer == TokenText(trace)
          started == Positions(trace, "call", "add_turn")
          written == history # atStart.history \/ store # atStart.store
                       \/ disk # atStart.disk
      IN /\ written =>
              /\ started # {}
              /\ \A k \in Positions(trace, "yield", "token") :
                    \A w \in started : k < w
              /\ loc.raised = "none"
              /\ answer # EmptyText
         /\ history # atStart.history =>
              history = atStart.history
                          \o <<ChatMessage(req.session_id, "user", req.query),
                               ChatMessage(req.session_id, "ai", answer)>>
         /\ store # atStart.store =>
              /\ store.exists
              /\ store.docs = atStart.store.docs \o <<Document(req.query, answer)>>
         /\ disk # atStart.disk => disk = store

\* C5 witness: a finished miss whose two tokens were written to both stores.
C5_Witness ==
    /\ stPc = "done"
    /\ OnMissPath
    /\ loc.ntok = 2
    /\ history # atStart.history
    /\ store # atStart.store
    /\ disk = store

PipelineCalls ==
    {"get_history_messages", "_rewrite_query", "condense_q_chain", "aretrieve",
     "arerank", "astream"}

\* C6: when the lookup returned an answer, no sources event is emitted and
\* history read, rewrite, retriever, reranker and LLM are not invoked.
C6_HitSkipsPipeline ==
    (stPc # "idle" /\ lookupRes.res.hit) =>
        \A k \in DOMAIN trace :
           /\ ~(trace[k].kind = "yield" /\ trace[k].type = "sources")
           /\ ~(trace[k].kind = "call" /\ trace[k].type \in PipelineCalls)

\* C6 witness: a cache hit delivered to its end.
C6_Witness ==
    /\ stPc = "done"
    /\ lookupRes.res.hit
    /\ history # atStart.history

\* C7: on a cache miss, status(understanding) precedes the rewrite call,
\* status(searching) precedes retrieval, one sources event follows retrieval
\* and reranking and precedes status(thinking), every token follows
\* status(thinking), and the generation context is built from the list the
\* sources event carries.
C7_MissOrder ==
    OnMissPath =>
      LET und == StatusPositions(trace, "understanding")
          sea == StatusPositions(trace, "searching")
          thi == StatusPositions(trace, "thinking")
          rew == Positions(trace, "call", "_rewrite_query")
                   \cup Positions(trace, "call", "condense_q_chain")
          ret == Positions(trace, "call", "aretrieve")
          rer == Positions(trace, "call", "arerank")
          gen == Positions(trace, "call", "astream")
          src == Positions(trace, "yield", "sources")
          tok == Positions(trace, "yield", "token")
      IN /\ \A r \in rew : \E u \in und : u < r
         /\ \A r \in ret : \E s \in sea : s < r
         /\ Cardinality(src) <= 1
         /\ \A s \in src : /\ \E r \in ret : r < s
                           /\ \A r \in rer : r < s
                           /\ \A t \in thi : s < t
                           /\ trace[s].docs = loc.source_docs
         /\ \A t \in thi : \E s \in src : s < t
         /\ \A t \in tok : \E h \in thi : h < t
         /\ \A g \in gen : \E s \in src :
               trace[g].text =
                  join(<<"\n", "\n">>,
                       [k \in DOMAIN trace[s].docs |-> trace[s].docs[k].page_content])
         /\ (stPc = "done" /\ loc.raised = "none" /\ wire[Len(wire) - 1] # "error") =>
               /\ Cardinality(und) = 1 /\ Cardinality(sea) = 1
               /\ Cardinality(src) = 1 /\ Cardinality(thi) = 1
               /\ Cardinality(gen) = 1

\* C7 witness: a finished miss, reranked from two documents to one, two tokens.
C7_Witness ==
    /\ stPc = "done"
    /\ OnMissPath
    /\ loc.raised = "none"
    /\ cfg.reranker
    /\ Len(loc.retrieved_docs) = 2
    /\ Len(loc.source_docs) = 1
    /\ loc.ntok = 2

\* C8 as stated: the first thing ask_stream does is to emit a status event
\* (rewriting), before the cache lookup.
C8_StatusBeforeLookup ==
    trace # <<>> =>
        /\ trace[1].kind = "yield"
        /\ trace[1].type = "status"
        /\ trace[1].what = "rewriting"

\* C8 amended: ask_stream emits nothing before the cache lookup, which is its
\* first step; its first event is status(cache hit) when the lookup returned
\* an answer and status(understanding) otherwise, and no status(rewriting)
\* event exists.
C8_LookupBeforeFirstEvent ==
    (stPc # "idle" /\ trace # <<>>) =>
        LET ys == Yields(trace)
        IN /\ trace[1] = Call("lookup", req.query)
           /\ ys # <<>> =>
                ys[1] = IF lookupRes.res.hit THEN Status("cache_hit")
                        ELSE Status("understanding")
           /\ StatusPositions(trace, "rewriting") = {}

\* C8 witness: the first event of a cache hit has been emitted.
C8_Witness ==
    /\ stPc = "y_hit_status"
    /\ Len(Yields(trace)) = 1

----------------------------------------------------------------------------
(* QueryService.ask (query_service.py:132-163) *)

\* What qa_chain.ainvoke may answer
AskAnswers == {<<"a", "b", "c">>, EmptyText}

SERVER_ERROR == <<"S", "e", "r", "v", "e", "r", " ", "E", "r", "r", "o", "r">>

AskFrame ==
    /\ UNCHANGED <<store, disk, updPc, updDoc, lookupRes, updLog, lastOp>>
    /\ UNCHANGED <<cfg, ingestVars, hybridVars, concVars, tableVars, servingVars, nreq, req, wire, wHist, atStart>>

\* ask runs to its next await
AskRun(pc, newLoc, entries) ==
    /\ stPc' = pc
    /\ loc' = newLoc
    /\ trace' = trace \o entries
    /\ UNCHANGED resp

\* except Exception as e: return QueryResponse(answer="Server Error",
\* error=str(e)) (161-163)
ask_exceptMutReraise(what) ==
    /\ stPc' = "ask_raised"
    /\ loc' = [loc EXCEPT !.raised = what]
    /\ trace' = Append(trace, Raise(what))
    /\ UNCHANGED resp
ask_except(what) ==
    /\ stPc' = "ask_returned"
    /\ loc' = [loc EXCEPT !.raised = what]
    /\ resp' = [returned |-> TRUE, answer |-> SERVER_ERROR, source_documents |-> <<>>,
                error |-> [set |-> TRUE, msg |-> what]]
    /\ trace' = Append(trace, Raise(what))

\* What ask does when the reranker raises: nothing of its own, the exception
\* goes to the except clause (121, 161)
rerank_failedMutFallback(l) ==
    AskRun("ask_ainvoke", [l EXCEPT !.source_docs = final_docs_passthrough(l.retrieved_docs)],
           <<Raise("arerank"),
             Call("ainvoke", context_text([l EXCEPT !.source_docs =
                                 final_docs_passthrough(l.retrieved_docs)]))>>)
rerank_failed(l) ==
    ask_except("arerank")

\* ask is called and awaits the history read (138)
\* The call of ask that returned last, as the next call finds it: its
\* arguments, its QueryResponse, and the history it had found itself
previous_call ==
    IF stPc = "ask_returned"
    THEN [returned |-> TRUE, query |-> req.query, session_id |-> req.session_id,
          answer |-> resp.answer, error |-> resp.error.set,
          history |-> atStart.history]
    ELSE NoPrevious

AskStart ==
    /\ stPc \in {"idle", "ask_returned"}
    /\ nreq < MaxRequests
    /\ nreq' = nreq + 1
    /\ \E q \in StreamQueries, sid \in Sessions :
         req' = [query |-> q, session_id |-> sid]
    /\ stPc' = "ask_get_history"
    /\ loc' = InitLoc
    /\ trace' = <<Call("get_history_messages", EmptyText)>>
    /\ resp' = NoResponse
    /\ atStart' = [history |-> history, store |-> store, disk |-> disk,
                   previous |-> previous_call]
    /\ UNCHANGED <<store, disk, updPc, updDoc, lookupRes, updLog, lastOp>>
    /\ UNCHANGED <<history, cfg, ingestVars, hybridVars, concVars, tableVars, servingVars, wire, wHist>>

\* The history read returns; _rewrite_query (139) returns at once without
\* history and the retriever is awaited (142, 115), else the condense chain
\* is awaited (101)
AskGetHistoryDone ==
    /\ stPc = "ask_get_history"
    /\ \E queryRaises \in BOOLEAN :
         LET msgs == get_history_messages(history, req.session_id, queryRaises)
         IN IF msgs = <<>>
            THEN AskRun("ask_aretrieve",
                        [loc EXCEPT !.history_msgs = msgs, !.search_query = req.query],
                        history_entries(queryRaises)
                          \o <<Call("_rewrite_query", req.query),
                                Call("aretrieve", req.query)>>)
            ELSE AskRun("ask_rewrite", [loc EXCEPT !.history_msgs = msgs],
                        <<Call("_rewrite_query", req.query),
                          Call("condense_q_chain", req.query)>>)
    /\ AskFrame
    /\ UNCHANGED history

\* The condense chain answers or raises (101-110); the retriever is awaited
AskRewriteDone ==
    /\ stPc = "ask_rewrite"
    /\ \E llm \in LLMRewrites :
         LET sq == _rewrite_query(req.query, llm)
         IN AskRun("ask_aretrieve", [loc EXCEPT !.search_query = sq],
                   rewrite_entries(llm) \o <<Call("aretrieve", sq)>>)
    /\ AskFrame
    /\ UNCHANGED history

\* The retriever returns or raises (115-124); then the reranker or the QA
\* chain is awaited (121, 148)
AskRetrieveDone ==
    /\ stPc = "ask_aretrieve"
    /\ \/ ask_except("aretrieve")
       \/ \E docs \in RetrievalResults :
            IF cfg.reranker /\ docs # <<>>
            THEN AskRun("ask_arerank", [loc EXCEPT !.retrieved_docs = docs],
                        <<Call("arerank", loc.search_query)>>)
            ELSE LET l == [loc EXCEPT !.retrieved_docs = docs,
                                      !.source_docs = final_docs_passthrough(docs)]
                 IN AskRun("ask_ainvoke", l, <<Call("ainvoke", context_text(l))>>)
    /\ AskFrame
    /\ UNCHANGED history

\* The reranker returns or raises (121-130); the QA chain is awaited (148)
AskRerankDone ==
    /\ stPc = "ask_arerank"
    /\ \/ rerank_failed(loc)
       \/ \E scores \in ScoreTables :
            LET l == [loc EXCEPT !.source_docs =
                         final_docs_reranked(rerank(loc.retrieved_docs, scores))]
            IN AskRun("ask_ainvoke", l, <<Call("ainvoke", context_text(l))>>)
    /\ AskFrame
    /\ UNCHANGED history

\* The QA chain answers or raises (148-154); add_turn is awaited
AskInvokeDone ==
    /\ stPc = "ask_ainvoke"
    /\ \/ ask_except("ainvoke")
       \/ \E answer \in AskAnswers :
            AskRun("ask_add_turn", [loc EXCEPT !.full_answer = answer],
                   <<Call("add_turn", answer)>>)
    /\ AskFrame
    /\ UNCHANGED history

\* add_turn returns; ask returns its QueryResponse (154-160)
AskAddTurnDone ==
    /\ stPc = "ask_add_turn"
    /\ \E commitRaises \in BOOLEAN :
         history' = add_turn(history, req.session_id, req.query,
                             loc.full_answer, commitRaises)
    /\ stPc' = "ask_returned"
    /\ resp' = [returned |-> TRUE, answer |-> loc.full_answer,
                source_documents |-> loc.source_docs,
                error |-> [set |-> FALSE, msg |-> ""]]
    /\ UNCHANGED <<loc, trace>>
    /\ AskFrame

InitAsk ==
    /\ store = NoStore
    /\ disk = NoStore
    /\ updPc = "idle"
    /\ updDoc = Document(EmptyText, EmptyText)
    /\ lookupRes = NoLookup
    /\ updLog = {}
    /\ lastOp = "init"
    /\ cfg \in {[reranker |-> r, cache |-> TRUE] : r \in BOOLEAN}
    /\ IdleRequest
    /\ IdleIngestion
    /\ IdleHybrid
    /\ IdleConcurrent
    /\ IdleTable
    /\ IdleServing

NextAsk ==
    \/ AskStart
    \/ AskGetHistoryDone
    \/ AskRewriteDone
    \/ AskRetrieveDone
    \/ AskRerankDone
    \/ AskInvokeDone
    \/ AskAddTurnDone

SpecAsk == InitAsk /\ [][NextAsk]_vars

AskEnded == stPc \in {"ask_returned", "ask_raised"}

\* C1: ask always returns a QueryResponse; when a step raised into ask (the
\* retriever, the reranker or the QA chain), the response has error set and
\* the fallback answer, and otherwise error is null; a reranker or
\* generation failure is not recovered locally.
C1_AskNeverRaises ==
    AskEnded =>
        /\ stPc = "ask_returned"
        /\ resp.returned
        /\ loc.raised # "none" =>
              /\ resp.error.set
              /\ resp.answer = SERVER_ERROR
              /\ resp.source_documents = <<>>
        /\ loc.raised = "none" =>
              /\ ~resp.error.set
              /\ resp.answer = loc.full_answer
        /\ (\E k \in DOMAIN trace : trace[k].kind = "raise") =>
              /\ resp.error.set
              /\ resp.answer = SERVER_ERROR

\* C1 witness: the reranker raised and ask returned the error response.
C1_Witness ==
    /\ stPc = "ask_returned"
    /\ trace[Len(trace)] = Raise("arerank")
    /\ resp.error.set

----------------------------------------------------------------------------
(* QueryService with both entry points: each request is an ask or an        *)
(* ask_stream call on the same service                                      *)

NextOrchestrator ==
    \/ Next
    \/ NextAsk

SpecOrchestrator == InitStream /\ [][NextOrchestrator]_vars

AskPcs == {"ask_get_history", "ask_rewrite", "ask_aretrieve", "ask_arerank",
           "ask_ainvoke", "ask_add_turn", "ask_returned", "ask_raised"}

CacheCalls(tr) == {k \in DOMAIN tr : tr[k].kind = "call" /\ tr[k].type \in {"lookup", "update"}}

HasEntry(st, query, answer) ==
    \E k \in DOMAIN st.docs : st.docs[k] = Document(query, answer)

\* A request that ended with an answer it produced itself: ask returned
\* without error, or ask_stream ended on the cache-miss path without error.
AnsweredWithoutHit ==
    \/ stPc = "ask_returned" /\ ~resp.error.set
    \/ stPc = "done" /\ loc.cached_answer = EmptyText /\ loc.raised = "none"

----------------------------------------------------------------------------
(* SpecCache: one caller drives lookup and update on a fresh persist dir *)

InitCache ==
    /\ store = NoStore
    /\ disk = NoStore
    /\ updPc = "idle"
    /\ updDoc = Document(EmptyText, EmptyText)
    /\ lookupRes = NoLookup
    /\ updLog = {}
    /\ lastOp = "init"
    /\ cfg = [reranker |-> TRUE, cache |-> TRUE]
    /\ IdleRequest
    /\ IdleIngestion
    /\ IdleHybrid
    /\ IdleConcurrent
    /\ IdleTable
    /\ IdleServing

CacheLookup ==
    /\ updPc = "idle"
    /\ \E q \in Questions, searchRaises \in BOOLEAN :
         \E r \in lookup(store, q, searchRaises) :
            lookupRes' = [query |-> q, searchRaises |-> searchRaises, res |-> r]
    /\ lastOp' = "lookup"
    /\ UNCHANGED <<store, disk, updPc, updDoc, updLog>>
    /\ UNCHANGED <<reqVars, ingestVars, hybridVars, concVars, tableVars, servingVars>>

CacheUpdateCall ==
    /\ Len(store.docs) < MaxEntries
    /\ \E q \in Questions, a \in CacheAnswers : UpdateCall(q, a)
    /\ lastOp' = "update"
    /\ lookupRes' = NoLookup
    /\ UNCHANGED <<store, disk, updLog>>
    /\ UNCHANGED <<reqVars, ingestVars, hybridVars, concVars, tableVars, servingVars>>

CacheUpdateIndexed ==
    /\ \E raises \in BOOLEAN :
         /\ UpdateIndexed(raises)
         /\ updLog' = IF raises
                       THEN updLog \cup {[q |-> updDoc.page_content, stored |-> FALSE]}
                       ELSE updLog
         /\ lastOp' = IF raises THEN "update_failed" ELSE "update"
    /\ UNCHANGED <<disk, updDoc, lookupRes>>
    /\ UNCHANGED <<reqVars, ingestVars, hybridVars, concVars, tableVars, servingVars>>

CacheUpdateSaved ==
    /\ \E raises \in BOOLEAN :
         /\ UpdateSaved(raises)
         /\ lastOp' = IF raises THEN "update_unsaved" ELSE "update_saved"
    /\ updLog' = updLog \cup {[q |-> updDoc.page_content, stored |-> TRUE]}
    /\ UNCHANGED <<store, updDoc, lookupRes>>
    /\ UNCHANGED <<reqVars, ingestVars, hybridVars, concVars, tableVars, servingVars>>

NextCache ==
    \/ CacheLookup
    \/ CacheUpdateCall
    \/ CacheUpdateIndexed
    \/ CacheUpdateSaved

SpecCache == InitCache /\ [][NextCache]_vars


----------------------------------------------------------------------------
(* Properties of SemanticCacheService *)

\* The smallest distance from the query to a stored question
Nearest(docs, query) ==
    CHOOSE d \in {L2Distance(query, docs[k].page_content) : k \in DOMAIN docs} :
        \A k \in DOMAIN docs : d <= L2Distance(query, docs[k].page_content)

AnswersAt(docs, query, d) ==
    {docs[k].answer : k \in {j \in DOMAIN docs : L2Distance(query, docs[j].page_content) = d}}

\* C9: lookup never raises; it returns an answer exactly when an index
\* exists, the search did not fail and the nearest stored question is at a
\* distance strictly below 0.35 (350 thousandths), and then the answer is
\* the one stored with a nearest question; otherwise it returns None.
C9_LookupThreshold ==
    lastOp = "lookup" =>
      LET q == lookupRes.query
          r == lookupRes.res
          near == /\ store.exists
                  /\ ~lookupRes.searchRaises
                  /\ store.docs # <<>>
                  /\ Nearest(store.docs, q) < 350
      IN /\ ~r.raised
         /\ r.hit <=> near
         /\ r.hit => r.answer \in AnswersAt(store.docs, q, Nearest(store.docs, q))

\* C9 witness: a lookup whose nearest stored question is at exactly 0.35
\* returned None.
C9_Witness ==
    /\ lastOp = "lookup"
    /\ store.exists
    /\ ~lookupRes.searchRaises
    /\ Nearest(store.docs, lookupRes.query) = 350
    /\ ~lookupRes.res.hit

UpdateReturned == updPc = "idle" /\ lastOp \in {"update_failed", "update_unsaved", "update_saved"}

----------------------------------------------------------------------------
(* IngestionService.run (services/ingestion_service.py:69-139), step by    *)
(* step, with the files of the data root edited and the process restarted  *)
(* between runs                                                            *)

MaxRuns == 2             \* ingestion runs per behaviour

IngestIdle == ing.pc \in {"idle", "returned", "raised"}

StoresUnchanged ==
    UNCHANGED <<metadata_file, faiss_store, faiss_index_file, bm25_index_file>>

\* except Exception as e: raise DataProcessingError(..., original_exception=e)
\* (138-139)
run_except(r, cause) ==
    [r EXCEPT !.pc = "raised", !.exc = DataProcessingError(cause)]

\* An exception raised outside the try block of run leaves run as it is
run_escapes(r, cause) ==
    [r EXCEPT !.pc = "raised", !.exc = OtherException(cause)]

\* run is called: the hash map is read (74), cleared under force_rebuild
\* (79-81), and the data root is listed (86).  json.load raises on a file it
\* cannot parse, and reading or listing can fail with an I/O error.
IngestStart ==
    /\ IngestIdle
    /\ nruns < MaxRuns
    /\ nruns' = nruns + 1
    /\ \E force_rebuild \in BOOLEAN, readRaises \in BOOLEAN, listRaises \in BOOLEAN :
         LET r == [NoRun EXCEPT !.force_rebuild = force_rebuild,
                                !.atStart = Snapshot,
                                !.forced = ing.forced \/ force_rebuild,
                                !.prev = [pc |-> ing.pc,
                                          committed |-> "metadata_file" \in ing.writes,
                                          early |-> ing.early,
                                          data_dir |-> ing.atStart.data_dir]]
         IN ing' = IF \/ metadata_file.status = "corrupt"
                      \/ metadata_file.status = "ok" /\ readRaises
                   THEN run_escapes(r, "_load_metadata")
                   ELSE IF listRaises
                   THEN run_except(r, "rglob")
                   ELSE [r EXCEPT !.pc = "scan",
                                  !.processed_files_meta =
                                      meta_at_start(metadata_file, force_rebuild),
                                  !.todo = all_files_in_source(data_dir)]
    /\ StoresUnchanged
    /\ UNCHANGED <<strategy, data_dir>>
    /\ UNCHANGED <<cacheVars, reqVars, hybridVars, concVars, tableVars, servingVars>>

\* One iteration of the loop over the files (87-102)
IngestScanFile ==
    /\ ing.pc = "scan"
    /\ ing.todo # <<>>
    /\ \E hashRaises \in BOOLEAN, loaderRaises \in BOOLEAN :
         LET file_rel_path == Head(ing.todo)
             file_hash == _get_file_hash(data_dir[file_rel_path])
             docs_from_file == load_single_file(file_rel_path, data_dir[file_rel_path],
                                                loaderRaises)
             loaded == [ing EXCEPT !.todo = Tail(@),
                                   !.all_current_docs = @ \o docs_from_file,
                                   !.unloaded = IF loaderRaises
                                                THEN @ \cup {file_rel_path} ELSE @]
         IN ing' = IF hashRaises
                   THEN run_except(ing, "_get_file_hash")
                   ELSE IF is_changed(ing.processed_files_meta, file_rel_path, file_hash,
                                      ing.force_rebuild)
                   THEN [loaded EXCEPT !.new_or_updated_docs = @ \o docs_from_file,
                                       !.processed_files_meta =
                                           dict_set(@, file_rel_path, file_hash),
                                       !.changed = @ \cup {file_rel_path}]
                   ELSE loaded
    /\ StoresUnchanged
    /\ UNCHANGED <<strategy, data_dir, nruns>>
    /\ UNCHANGED <<cacheVars, reqVars, hybridVars, concVars, tableVars, servingVars>>

\* The early exit of run (104-106)
early_exit(r) == r.new_or_updated_docs = <<>> /\ ~r.force_rebuild

\* After the loop: the early exit, or the changed documents are split (109)
IngestScanDone ==
    /\ ing.pc = "scan"
    /\ ing.todo = <<>>
    /\ IF early_exit(ing)
       THEN ing' = [ing EXCEPT !.pc = "returned", !.early = TRUE]
       ELSE \E splitRaises \in BOOLEAN :
              ing' = IF splitRaises /\ ing.new_or_updated_docs # <<>>
                     THEN run_except(ing, "split_documents")
                     ELSE [ing EXCEPT !.pc = "vector",
                                      !.chunks = split_documents(ing.new_or_updated_docs)]
    /\ StoresUnchanged
    /\ UNCHANGED <<strategy, data_dir, nruns>>
    /\ UNCHANGED <<cacheVars, reqVars, hybridVars, concVars, tableVars, servingVars>>

\* FaissVectorStore.save_local (vector_store.py:57-62): the index file after
\* the call; a failed write is swallowed (returns False)
save_local(st, file, saveRaises) ==
    IF ~st.exists \/ saveRaises THEN file ELSE st

\* FaissVectorStore.build_from_documents (vector_store.py:64-69): the
\* exception it raises if any, the in-memory index and the index file
build_from_documents(st, file, documents, embedRaises, saveRaises) ==
    IF documents = <<>> THEN [exc |-> "none", store |-> st, file |-> file]
    ELSE IF embedRaises THEN [exc |-> "from_documents", store |-> st, file |-> file]
    ELSE [exc |-> "none",
          store |-> [exists |-> TRUE, docs |-> documents],
          file |-> save_local([exists |-> TRUE, docs |-> documents], file, saveRaises)]

\* FaissVectorStore.add_documents (vector_store.py:71-81)
add_documents(st, file, documents, embedRaises, saveRaises) ==
    IF ~st.exists THEN [exc |-> "InitializationError", store |-> st, file |-> file]
    ELSE IF documents = <<>> THEN [exc |-> "none", store |-> st, file |-> file]
    ELSE IF embedRaises THEN [exc |-> "add_documents", store |-> st, file |-> file]
    ELSE [exc |-> "none",
          store |-> [exists |-> TRUE, docs |-> st.docs \o documents],
          file |-> save_local([exists |-> TRUE, docs |-> st.docs \o documents],
                              file, saveRaises)]

\* The vector store update of run (113-124)
IngestVectorUpdate ==
    /\ ing.pc = "vector"
    /\ IF ing.chunks = <<>>
       THEN /\ ing' = [ing EXCEPT !.pc = "bm25"]
            /\ UNCHANGED <<faiss_store, faiss_index_file, srv>>
       ELSE \E embedRaises \in BOOLEAN, saveRaises \in BOOLEAN :
              LET rebuilt == ing.force_rebuild \/ ~faiss_store.exists
                  res == IF rebuilt
                         THEN build_from_documents(faiss_store, faiss_index_file,
                                                   ing.chunks, embedRaises, saveRaises)
                         ELSE add_documents(faiss_store, faiss_index_file,
                                            ing.chunks, embedRaises, saveRaises)
              IN /\ faiss_store' = res.store
                 /\ faiss_index_file' = res.file
                 /\ srv' = retriever_after_vector_update(srv, rebuilt, res)
                 /\ ing' = IF res.exc # "none"
                           THEN run_except(ing, res.exc)
                           ELSE [ing EXCEPT
                                   !.pc = "bm25",
                                   !.writes = @ \cup {"faiss_store"}
                                                \cup (IF saveRaises THEN {}
                                                      ELSE {"faiss_index_file"}),
                                   !.swallowed = IF saveRaises
                                                 THEN @ \cup {"save_local"} ELSE @]
    /\ UNCHANGED <<metadata_file, bm25_index_file>>
    /\ UNCHANGED <<strategy, data_dir, nruns>>
    /\ UNCHANGED <<cacheVars, reqVars, hybridVars, concVars, tableVars>>

\* BM25Retriever.build_and_save (bm25.py:67-89): the exception it raises if
\* any and the index file; without documents it returns at once (69-71)
build_and_save(file, documents, buildRaises) ==
    IF documents = <<>> THEN [exc |-> "none", file |-> file, written |-> FALSE]
    ELSE IF buildRaises THEN [exc |-> "build_and_save", file |-> file, written |-> FALSE]
    ELSE [exc |-> "none", file |-> [exists |-> TRUE, docs |-> documents], written |-> TRUE]

\* Whether run builds the lexical index (127)
needs_bm25(s) == s \in {"bm25", "hybrid"}

\* The lexical index rebuild of run (127-132)
IngestBM25 ==
    /\ ing.pc = "bm25"
    /\ IF needs_bm25(strategy)
       THEN \E buildRaises \in BOOLEAN :
              LET res == build_and_save(bm25_index_file, ing.all_current_docs, buildRaises)
              IN /\ bm25_index_file' = res.file
                 /\ ing' = IF res.exc # "none"
                           THEN run_except(ing, res.exc)
                           ELSE [ing EXCEPT
                                   !.pc = "save_metadata",
                                   !.writes = IF res.written
                                              THEN @ \cup {"bm25_index_file"} ELSE @]
       ELSE /\ ing' = [ing EXCEPT !.pc = "save_metadata"]
            /\ UNCHANGED bm25_index_file
    /\ UNCHANGED <<metadata_file, faiss_store, faiss_index_file>>
    /\ UNCHANGED <<strategy, data_dir, nruns>>
    /\ UNCHANGED <<cacheVars, reqVars, hybridVars, concVars, tableVars, servingVars>>

\* _save_metadata (63-67, 135): the file holds the hash map; open("w")
\* empties the file before json.dump writes, so a failed write leaves the
\* old file or an unparsable one
IngestSaveMetadata ==
    /\ ing.pc = "save_metadata"
    /\ \E writeRaises \in BOOLEAN, truncated \in BOOLEAN :
         IF writeRaises
         THEN /\ ing' = run_except(ing, "_save_metadata")
              /\ metadata_file' = IF truncated THEN CorruptMetadata ELSE metadata_file
         ELSE /\ ing' = [ing EXCEPT !.pc = "returned",
                                    !.writes = @ \cup {"metadata_file"}]
              /\ metadata_file' = Metadata(ing.processed_files_meta)
    /\ UNCHANGED <<faiss_store, faiss_index_file, bm25_index_file>>
    /\ UNCHANGED <<strategy, data_dir, nruns>>
    /\ UNCHANGED <<cacheVars, reqVars, hybridVars, concVars, tableVars, servingVars>>

\* Between runs a file under the data root is created, rewritten or deleted
EditFile ==
    /\ IngestIdle
    /\ nruns < MaxRuns
    /\ \E p \in Paths, c \in Contents \cup {Absent} :
         /\ c # data_dir[p]
         /\ data_dir' = [data_dir EXCEPT ![p] = c]
    /\ StoresUnchanged
    /\ UNCHANGED <<strategy, nruns, ing>>
    /\ UNCHANGED <<cacheVars, reqVars, hybridVars, concVars, tableVars, servingVars>>

\* FaissVectorStore.load_local (vector_store.py:43-55)
load_local(st, file) ==
    IF st.exists THEN st
    ELSE IF ~file.exists THEN st
    ELSE file

\* Between runs the process restarts: the vector store is constructed anew
\* and loaded from its file (factories.py:80)
Restart ==
    /\ IngestIdle
    /\ nruns < MaxRuns
    /\ faiss_store' = load_local(NoIndex, faiss_index_file)
    /\ srv' = NotServing
    /\ faiss_store' # faiss_store \/ srv' # srv
    /\ UNCHANGED <<metadata_file, faiss_index_file, bm25_index_file>>
    /\ UNCHANGED <<strategy, data_dir, nruns, ing>>
    /\ UNCHANGED <<cacheVars, reqVars, hybridVars, concVars, tableVars>>

InitIngest ==
    /\ store = NoStore
    /\ disk = NoStore
    /\ updPc = "idle"
    /\ updDoc = Document(EmptyText, EmptyText)
    /\ lookupRes = NoLookup
    /\ updLog = {}
    /\ lastOp = "init"
    /\ cfg = [reranker |-> TRUE, cache |-> TRUE]
    /\ IdleRequest
    /\ strategy \in Strategies
    /\ data_dir \in [Paths -> Contents \cup {Absent}]
    /\ metadata_file = NoMetadata
    /\ faiss_store = NoIndex
    /\ faiss_index_file = NoIndex
    /\ bm25_index_file = NoIndex
    /\ nruns = 0
    /\ ing = NoRun
    /\ IdleHybrid
    /\ IdleConcurrent
    /\ IdleTable
    /\ IdleServing

NextIngest ==
    \/ IngestStart
    \/ IngestScanFile
    \/ IngestScanDone
    \/ IngestVectorUpdate
    \/ IngestBM25
    \/ IngestSaveMetadata
    \/ EditFile
    \/ Restart

SpecIngest == InitIngest /\ [][NextIngest]_vars

----------------------------------------------------------------------------
(* Properties of IngestionService.run *)

\* The documents of the files in `files` (a sequence of paths) as the data
\* root holds them
DocsOf(dir, files) ==
    [i \in 1..Len(files) |-> LoadedDocument(files[i], dir[files[i]])]

RunEnded == ing.pc \in {"returned", "raised"}
RunCompleted == ing.pc = "returned" /\ ~ing.early

\* C13: the hash map is written only by a run all of whose update steps
\* succeeded, the persistence of the vector index included: such a run has
\* returned, no failure of an update step was swallowed in it, and the
\* vector index file is the index in memory when the run added chunks; a
\* run in which an update step failed leaves the hash map file as it found
\* it.
C13_HashMapOnlyAfterAllSteps ==
    /\ "metadata_file" \in ing.writes =>
          /\ ing.pc = "returned"
          /\ "save_local" \notin ing.swallowed
          /\ ing.chunks # <<>> => faiss_index_file = faiss_store
    /\ (\/ ing.pc = "raised" /\ ing.exc.cause \in {"from_documents", "add_documents",
                                                   "build_and_save"}
        \/ "save_local" \in ing.swallowed) =>
          metadata_file = ing.atStart.metadata_file

\* C14: a run that ends by raising raises a DataProcessingError, and a run
\* that returns has skipped no failing step: every file was loaded and no
\* failure was swallowed.
C14_EveryFailureIsDataProcessingError ==
    /\ ing.pc = "raised" => ing.exc.type = "DataProcessingError"
    /\ ing.pc = "returned" => (ing.unloaded = {} /\ ing.swallowed = {})

\* C15: a run without force_rebuild that follows a run that returned, with
\* the data root holding the same contents as in that run, writes nothing:
\* if it returns it has taken the early exit, and the vector index, its
\* file, the lexical index file and the hash map file are as the run found
\* them.
C15_SecondRunWritesNothing ==
    (/\ RunEnded
     /\ ~ing.force_rebuild
     /\ ing.prev.pc = "returned"
     /\ ing.atStart.data_dir = ing.prev.data_dir) =>
        /\ ing.pc = "returned" => ing.early
        /\ ing.writes = {}
        /\ metadata_file = ing.atStart.metadata_file
        /\ faiss_store = ing.atStart.faiss_store
        /\ faiss_index_file = ing.atStart.faiss_index_file
        /\ bm25_index_file = ing.atStart.bm25_index_file

\* The files the run has classified so far, in listing order
Scanned ==
    IF ing.pc = "scan"
    THEN SubSeq(all_files_in_source(ing.atStart.data_dir), 1,
                Len(all_files_in_source(ing.atStart.data_dir)) - Len(ing.todo))
    ELSE all_files_in_source(ing.atStart.data_dir)

\* The hash the hash map file held for a path when the run started
PersistedHash(p) == dict_get(_load_metadata(ing.atStart.metadata_file), p)

\* C16: in every run, a file the loop has passed is in the changed set
\* exactly when its SHA-256 differs from the hash persisted for its path or
\* force_rebuild is set; so a file whose content is not the content whose
\* hash is persisted is in the changed set; the documents to update the
\* vector index with are the loaded documents of exactly the changed files,
\* the chunks are their split, and once the vector step is done they are the
\* tail of the vector index (the whole of it when the index was built).
C16_ChangedIffHashDiffers ==
    ing.pc \in {"scan", "vector", "bm25", "save_metadata", "returned"} =>
        /\ \A k \in DOMAIN Scanned :
              LET p == Scanned[k]
              IN /\ p \in ing.changed <=>
                      \/ _get_file_hash(ing.atStart.data_dir[p]) # PersistedHash(p)
                      \/ ing.force_rebuild
                 /\ (\A c \in Contents :
                        (PersistedHash(p) = _get_file_hash(c) /\ ing.atStart.data_dir[p] # c)
                           => p \in ing.changed)
                 /\ p \in ing.changed =>
                      ing.processed_files_meta[p] = _get_file_hash(ing.atStart.data_dir[p])
        /\ ing.changed \subseteq {Scanned[k] : k \in DOMAIN Scanned}
        /\ ing.new_or_updated_docs =
              DocsOf(ing.atStart.data_dir, SelectSeq(Scanned, LAMBDA p : p \in ing.changed
                                                            /\ p \notin ing.unloaded))
        /\ ing.pc \in {"vector", "bm25", "save_metadata"} \/ RunCompleted =>
              ing.chunks = split_documents(ing.new_or_updated_docs)
        /\ (ing.pc \in {"bm25", "save_metadata"} /\ ing.chunks # <<>>) =>
              /\ faiss_store.exists
              /\ Len(faiss_store.docs) >= Len(ing.chunks)
              /\ SubSeq(faiss_store.docs, Len(faiss_store.docs) - Len(ing.chunks) + 1,
                        Len(faiss_store.docs)) = ing.chunks

\* C16 witness: a run without force_rebuild found the hash map of an earlier
\* run, one file with another content than the one whose hash is persisted
\* and one file unchanged; it processed the first only.
C16_Witness ==
    /\ RunCompleted
    /\ ~ing.force_rebuild
    /\ ing.atStart.metadata_file.status = "ok"
    /\ ing.changed = {"f1"}
    /\ ing.atStart.data_dir["f2"] # Absent
    /\ PersistedHash("f1") # <<>>
    /\ PersistedHash("f1") # _get_file_hash(ing.atStart.data_dir["f1"])
    /\ PersistedHash("f2") = _get_file_hash(ing.atStart.data_dir["f2"])
    /\ ing.chunks = split_documents(<<LoadedDocument("f1", ing.atStart.data_dir["f1"])>>)

\* C17: with strategy bm25 or hybrid, a run that returned without the early
\* exit leaves a lexical index file that holds exactly the documents of all
\* files the data root held in that run.
C17_LexicalIndexIsWholeCorpus ==
    (needs_bm25(strategy) /\ RunCompleted) =>
        /\ bm25_index_file.exists
        /\ bm25_index_file.docs = DocsOf(ing.atStart.data_dir, all_files_in_source(ing.atStart.data_dir))

----------------------------------------------------------------------------
(* HybridRetriever.retrieve and aretrieve (retrievers/hybrid.py:51-65) *)

HybridIdle == hyb.pc \in {"idle", "returned"}

AllInvoked == \A i \in DOMAIN hyb.outcomes : hyb.outcomes[i].status # "pending"

\* retrieve(query) is called
HybridRetrieveCall ==
    /\ HybridIdle
    /\ hyb' = [NoCall(hyb.config) EXCEPT !.pc = "invoke", !.path = "retrieve"]
    /\ UNCHANGED <<cacheVars, reqVars, ingestVars, concVars, tableVars, servingVars>>

\* aretrieve(query) is called
HybridAretrieveCall ==
    /\ HybridIdle
    /\ hyb' = [NoCall(hyb.config) EXCEPT !.pc = "invoke", !.path = "aretrieve"]
    /\ UNCHANGED <<cacheVars, reqVars, ingestVars, concVars, tableVars, servingVars>>

\* One iteration of the loop over self.retrievers (ensemble_local.py:35-41):
\* the next sub-retriever returns its list or raises
SubRetrieverInvoked ==
    /\ hyb.pc = "invoke"
    /\ hyb.path = "retrieve"
    /\ \E i \in DOMAIN hyb.outcomes, outcome \in RetrieverOutcomes(hyb.config) :
         /\ hyb.outcomes[i].status = "pending"
         /\ \A j \in 1..(i - 1) : hyb.outcomes[j].status # "pending"
         /\ hyb' = [hyb EXCEPT !.outcomes[i] = outcome]
    /\ UNCHANGED <<cacheVars, reqVars, ingestVars, concVars, tableVars, servingVars>>

\* One of the tasks under asyncio.gather (ensemble_local.py:86-92) ends, in
\* whatever order the event loop runs them
SubRetrieverAwaited ==
    /\ hyb.pc = "invoke"
    /\ hyb.path = "aretrieve"
    /\ \E i \in DOMAIN hyb.outcomes, outcome \in RetrieverOutcomes(hyb.config) :
         /\ hyb.outcomes[i].status = "pending"
         /\ hyb' = [hyb EXCEPT !.outcomes[i] = outcome]
    /\ UNCHANGED <<cacheVars, reqVars, ingestVars, concVars, tableVars, servingVars>>

\* The lists are fused (ensemble_local.py:43-74) and retrieve returns the
\* first top_k documents (hybrid.py:54)
HybridRetrieveReturns ==
    /\ hyb.pc = "invoke"
    /\ hyb.path = "retrieve"
    /\ AllInvoked
    /\ hyb' = [hyb EXCEPT !.pc = "returned",
                          !.doc_scores = fused(hyb.outcomes, weights_of(hyb.config)),
                          !.results = retrieve(hyb.config, hyb.outcomes)]
    /\ UNCHANGED <<cacheVars, reqVars, ingestVars, concVars, tableVars, servingVars>>

\* gather has returned: the lists are fused (ensemble_local.py:94-120) and
\* aretrieve returns the first top_k documents (hybrid.py:63)
HybridAretrieveReturns ==
    /\ hyb.pc = "invoke"
    /\ hyb.path = "aretrieve"
    /\ AllInvoked
    /\ hyb' = [hyb EXCEPT !.pc = "returned",
                          !.doc_scores = afused(hyb.outcomes, weights_of(hyb.config)),
                          !.results = aretrieve(hyb.config, hyb.outcomes)]
    /\ UNCHANGED <<cacheVars, reqVars, ingestVars, concVars, tableVars, servingVars>>

InitHybrid ==
    /\ store = NoStore
    /\ disk = NoStore
    /\ updPc = "idle"
    /\ updDoc = Document(EmptyText, EmptyText)
    /\ lookupRes = NoLookup
    /\ updLog = {}
    /\ lastOp = "init"
    /\ cfg = [reranker |-> TRUE, cache |-> TRUE]
    /\ IdleRequest
    /\ IdleIngestion
    /\ IdleConcurrent
    /\ IdleTable
    /\ IdleServing
    /\ hyb \in {NoCall(config) : config \in HybridConfigs}

NextHybrid ==
    \/ HybridRetrieveCall
    \/ HybridAretrieveCall
    \/ SubRetrieverInvoked
    \/ SubRetrieverAwaited
    \/ HybridRetrieveReturns
    \/ HybridAretrieveReturns

SpecHybrid == InitHybrid /\ [][NextHybrid]_vars

----------------------------------------------------------------------------
(* Properties of the rank fusion *)

HybridReturned == hyb.pc = "returned"

\* The lists the fusion has received: nothing from a retriever that raised
ReceivedLists == [i \in DOMAIN hyb.outcomes |-> hyb.outcomes[i].docs]

TextsOf(docs) == {docs[i].page_content : i \in DOMAIN docs}

\* The sum of w / (r + 1) over the positions pos = r + 1, from `pos` on, at
\* which `text` stands in `docs`, in units of 1/6000
RECURSIVE ListTotal(_, _, _, _)
ListTotal(text, docs, w, pos) ==
    IF pos > Len(docs) THEN 0
    ELSE (IF docs[pos].page_content = text THEN (w * 60) \div pos ELSE 0)
         + ListTotal(text, docs, w, pos + 1)

ExpectedTotal(text) ==
    ListTotal(text, ReceivedLists[1], hyb.config.bm25_weight, 1)
    + ListTotal(text, ReceivedLists[2], hyb.config.vector_weight, 1)

TextSeq(docs) == [i \in DOMAIN docs |-> docs[i].page_content]

FusedDocs == [i \in DOMAIN hyb.doc_scores |-> hyb.doc_scores[i].doc]

\* The lists [A, B] with weight 0.6 and [C, D] with weight 0.4
FusionExample ==
    /\ weights_of(hyb.config) = <<60, 40>>
    /\ TextSeq(ReceivedLists[1]) = <<(<<"A">>), (<<"B">>)>>
    /\ TextSeq(ReceivedLists[2]) = <<(<<"C">>), (<<"D">>)>>

\* C18: once a hybrid retrieval has returned, every text of the received
\* lists stands exactly once in the fused list, with a total score equal to
\* the sum of w_i / (r + 1) over every list i and 0-based position r at which
\* the text occurs; for the lists [A, B] with weight 0.6 and [C, D] with
\* weight 0.4 the fused order is A (0.6), C (0.4), B (0.3), D (0.2); and the
\* synchronous and the asynchronous path compute the same fused list from the
\* same outcomes of the sub-retrievers.
C18_FusionSumsReciprocalRanks ==
    HybridReturned =>
        /\ TextsOf(FusedDocs) = TextsOf(ReceivedLists[1]) \cup TextsOf(ReceivedLists[2])
        /\ NoRepeatedText(FusedDocs)
        /\ \A i \in DOMAIN hyb.doc_scores :
             hyb.doc_scores[i].score = ExpectedTotal(hyb.doc_scores[i].doc.page_content)
        /\ FusionExample
           => /\ TextSeq(FusedDocs) = <<(<<"A">>), (<<"C">>), (<<"B">>), (<<"D">>)>>
              /\ [i \in DOMAIN hyb.doc_scores |-> hyb.doc_scores[i].score]
                     = <<3600, 2400, 1800, 1200>>
        /\ fused(hyb.outcomes, weights_of(hyb.config))
               = afused(hyb.outcomes, weights_of(hyb.config))
        /\ _get_relevant_documents(hyb.outcomes, weights_of(hyb.config))
               = _aget_relevant_documents(hyb.outcomes, weights_of(hyb.config))
        /\ hyb.doc_scores = fused(hyb.outcomes, weights_of(hyb.config))

\* An asynchronous retrieval has returned in which both retrievers answered
\* and two different chunks with the same text were merged into one entry
\* whose total has a contribution from each list
C18_Witness ==
    /\ HybridReturned
    /\ hyb.path = "aretrieve"
    /\ \A i \in DOMAIN hyb.outcomes : hyb.outcomes[i].status = "returned"
    /\ \E e \in {hyb.doc_scores[i] : i \in DOMAIN hyb.doc_scores} :
         /\ ListTotal(e.doc.page_content, ReceivedLists[1], hyb.config.bm25_weight, 1) > 0
         /\ ListTotal(e.doc.page_content, ReceivedLists[2], hyb.config.vector_weight, 1) > 0
         /\ \E d \in Chunks : /\ d # e.doc
                              /\ d.page_content = e.doc.page_content
                              /\ \E j \in DOMAIN ReceivedLists[2] : ReceivedLists[2][j] = d
    /\ Len(hyb.doc_scores) >= 2

\* Exactly one of the two sub-retrievers raised during the call that returned
OneRetrieverRaised ==
    /\ HybridReturned
    /\ \E i \in DOMAIN hyb.outcomes :
         /\ hyb.outcomes[i].status = "raised"
         /\ \A j \in DOMAIN hyb.outcomes : j # i => hyb.outcomes[j].status = "returned"

\* The list of the retriever that answered, and its weight
SurvivingIndex == CHOOSE i \in DOMAIN hyb.outcomes : hyb.outcomes[i].status = "returned"
SurvivingList == hyb.outcomes[SurvivingIndex].docs
SurvivingWeight == weights_of(hyb.config)[SurvivingIndex]

\* The position of the first document of `docs` with the text `text`
FirstPos(text, docs) ==
    CHOOSE i \in DOMAIN docs :
        /\ docs[i].page_content = text
        /\ \A j \in 1..(i - 1) : docs[j].page_content # text

\* C19 as claimed: when one of the two retrievers raises, the result is exactly
\* the other retriever's list, in its order, cut to top_k
C19_ResultIsOtherList ==
    OneRetrieverRaised => hyb.results = Slice(SurvivingList, 0, hyb.config.top_k)

\* C19: when one retriever of the two raises, the retrieval still returns, in
\* the synchronous and in the asynchronous path alike: the failing retriever
\* counts as an empty list, and the fused list holds each text of the other
\* retriever's list once, as the first document with that text, scored with
\* the sum of w / (r + 1) over the text's positions in that list and ordered
\* by that score, equal scores in order of first occurrence; it is exactly
\* that list, in its order, when no text stands in it twice.  The result is
\* the fused list cut to top_k.
C19_ResultIsOtherListMerged ==
    OneRetrieverRaised =>
        /\ TextsOf(FusedDocs) = TextsOf(SurvivingList)
        /\ NoRepeatedText(FusedDocs)
        /\ \A i \in DOMAIN hyb.doc_scores :
             LET e == hyb.doc_scores[i]
             IN /\ e.doc = SurvivingList[FirstPos(e.doc.page_content, SurvivingList)]
                /\ e.score = ListTotal(e.doc.page_content, SurvivingList, SurvivingWeight, 1)
        /\ \A i, j \in DOMAIN hyb.doc_scores :
             i < j =>
                \/ hyb.doc_scores[i].score > hyb.doc_scores[j].score
                \/ /\ hyb.doc_scores[i].score = hyb.doc_scores[j].score
                   /\ FirstPos(hyb.doc_scores[i].doc.page_content, SurvivingList)
                        < FirstPos(hyb.doc_scores[j].doc.page_content, SurvivingList)
        /\ NoRepeatedText(SurvivingList) => FusedDocs = SurvivingList
        /\ hyb.results = Slice(FusedDocs, 0, hyb.config.top_k)

\* A retrieval has returned in which the lexical retriever raised and the
\* vector retriever answered with two chunks of the same text, with a top_k
\* that would have let both through
C19_Witness ==
    /\ OneRetrieverRaised
    /\ hyb.outcomes[1].status = "raised"
    /\ Len(SurvivingList) = 2
    /\ ~NoRepeatedText(SurvivingList)
    /\ hyb.config.top_k >= 2
    /\ Len(hyb.results) = 1

\* The documents in the order in which the fusion meets them: the first
\* source list first, then by rank within a list
InsertionOrder == ReceivedLists[1] \o ReceivedLists[2]

TotalAt(i) == ExpectedTotal(FusedDocs[i].page_content)

\* C20: a hybrid retrieval returns the first min(top_k, n) documents of the
\* fused list of n documents, and the fused list is in descending order of
\* total score, documents of equal total score standing in the order in which
\* their texts were first inserted (first source list first, then by rank).
C20_TopKOfStableDescendingOrder ==
    HybridReturned =>
        /\ Len(hyb.results) = Min(hyb.config.top_k, Len(FusedDocs))
        /\ \A i \in DOMAIN hyb.results : hyb.results[i] = FusedDocs[i]
        /\ \A i, j \in DOMAIN FusedDocs :
             i < j =>
                \/ TotalAt(i) > TotalAt(j)
                \/ /\ TotalAt(i) = TotalAt(j)
                   /\ FirstPos(FusedDocs[i].page_content, InsertionOrder)
                        < FirstPos(FusedDocs[j].page_content, InsertionOrder)

\* A synchronous retrieval has returned fewer documents than were fused, and
\* the last document returned and the first one cut off have the same total
\* score, the one from the lexical list and the other from the vector list
C20_Witness ==
    /\ HybridReturned
    /\ hyb.path = "retrieve"
    /\ Len(hyb.results) = hyb.config.top_k
    /\ Len(FusedDocs) > hyb.config.top_k
    /\ TotalAt(hyb.config.top_k) = TotalAt(hyb.config.top_k + 1)
    /\ hyb.config.bm25_weight > 0
    /\ \E i \in DOMAIN ReceivedLists[1] :
         ReceivedLists[1][i] = FusedDocs[hyb.config.top_k]
    /\ \E i \in DOMAIN ReceivedLists[2] :
         ReceivedLists[2][i] = FusedDocs[hyb.config.top_k + 1]

----------------------------------------------------------------------------
(* Properties of the query rewrite *)

CallsOf(name) == {k \in DOMAIN trace : trace[k].kind = "call" /\ trace[k].type = name}

RewriteRaised == \E k \in DOMAIN trace : trace[k] = Caught("condense_q_chain")

\* The request in flight has got past its rewrite step
RewriteReturned == \E k \in DOMAIN trace : trace[k].kind = "call" /\ trace[k].type = "aretrieve"

\* C21: _rewrite_query never propagates an exception.  With an empty history
\* the condense chain is not called and the retriever gets the query as it
\* came; with a non-empty history the chain is called once and the retriever
\* gets its stripped answer, or, when the chain raised, the original query:
\* the request goes on to retrieval and no error is recorded for the rewrite.
C21_RewriteNeverPropagates ==
    /\ loc.raised # "condense_q_chain"
    /\ RewriteRaised => stPc \notin {"rewrite", "ask_rewrite"}
    /\ RewriteReturned =>
         /\ loc.history_msgs = <<>> =>
              /\ CallsOf("condense_q_chain") = {}
              /\ loc.search_query = req.query
         /\ loc.history_msgs # <<>> =>
              /\ Cardinality(CallsOf("condense_q_chain")) = 1
              /\ IF RewriteRaised
                 THEN loc.search_query = req.query
                 ELSE loc.search_query \in {strip(t) : t \in RewriteOutputs}
         /\ \A k \in CallsOf("aretrieve") : trace[k].text = loc.search_query
    /\ \A k \in DOMAIN trace :
         trace[k] = Caught("condense_q_chain") =>
            /\ k < Len(trace)
            /\ trace[k + 1] \in {Status("searching"), Call("aretrieve", req.query)}

\* A request with a non-empty history whose rewrite call raised has reached
\* retrieval with the original query
C21_Witness ==
    /\ RewriteRaised
    /\ loc.history_msgs # <<>>
    /\ \E k \in CallsOf("aretrieve") : trace[k].text = req.query
    /\ loc.raised = "none"

----------------------------------------------------------------------------
(* Properties of _retrieve_and_rerank *)

\* _retrieve_and_rerank has returned in the request in flight
SourcesBuilt ==
    \/ \E k \in DOMAIN trace : trace[k].kind = "yield" /\ trace[k].type = "sources"
    \/ CallsOf("ainvoke") # {}

RetrievedTexts == {loc.retrieved_docs[i].page_content : i \in DOMAIN loc.retrieved_docs}

\* C22: once _retrieve_and_rerank has returned, with a reranker configured and
\* at least one retrieved document the sources are the first top_k entries
\* of the reranker's output, in descending order of the reranker's scores and
\* carrying those scores; otherwise they are all retrieved documents in
\* retrieval order, each with score 1.0.  ask returns these sources when it
\* ends without error: retrieval D1, D2 reranked to D2 (.95), D1 (.80) with
\* top_k = 1 yields exactly the source D2.
C22_SourcesAreTopOfRerank ==
    /\ SourcesBuilt =>
         IF cfg.reranker /\ loc.retrieved_docs # <<>>
         THEN \E scores \in ScoreTables :
                /\ Len(loc.source_docs) = Min(rerank_top_k, Len(loc.retrieved_docs))
                /\ \A i \in DOMAIN loc.source_docs :
                     \E d \in Docs :
                        /\ d.page_content = loc.source_docs[i].page_content
                        /\ d.page_content \in RetrievedTexts
                        /\ loc.source_docs[i].score = scores[d]
                        /\ \A e \in Docs :
                             (/\ e.page_content \in RetrievedTexts
                              /\ \A j \in 1..i : loc.source_docs[j].page_content # e.page_content)
                             => scores[e] <= scores[d]
                /\ \A i, j \in DOMAIN loc.source_docs :
                     i < j => /\ loc.source_docs[i].score >= loc.source_docs[j].score
                              /\ loc.source_docs[i].page_content # loc.source_docs[j].page_content
         ELSE /\ Len(loc.source_docs) = Len(loc.retrieved_docs)
              /\ \A i \in DOMAIN loc.source_docs :
                   loc.source_docs[i] = [page_content |-> loc.retrieved_docs[i].page_content,
                                         score |-> 100]
    /\ (stPc = "ask_returned" /\ ~resp.error.set) =>
         /\ resp.source_documents = loc.source_docs
         /\ (/\ cfg.reranker
             /\ loc.retrieved_docs = <<D1, D2>>
             /\ rerank_top_k = 1
             /\ \E i \in DOMAIN loc.source_docs : loc.source_docs[i].score = 95)
            => resp.source_documents = <<[page_content |-> D2.page_content, score |-> 95]>>

\* ask has returned without error the single source D2 with score .95, out
\* of the retrieved documents D1, D2, with a reranker configured
C22_Witness ==
    /\ stPc = "ask_returned"
    /\ ~resp.error.set
    /\ cfg.reranker
    /\ loc.retrieved_docs = <<D1, D2>>
    /\ resp.source_documents = <<[page_content |-> D2.page_content, score |-> 95]>>

----------------------------------------------------------------------------
(* Properties of the conversation history *)

\* The turn (user_query, ai_answer) as the rewrite step receives it
TurnMessages(user_query, ai_answer) ==
    <<[role |-> "user", content |-> user_query], [role |-> "ai", content |-> ai_answer]>>

\* The rewrite step of a second call of ask has received its history; the
\* first call, on the same session and with no earlier turn in it, had
\* returned with error null
SecondCallRewrites ==
    /\ CallsOf("_rewrite_query") # {}
    /\ atStart.previous.returned
    /\ ~atStart.previous.error
    /\ atStart.previous.session_id = req.session_id
    /\ \A k \in DOMAIN atStart.previous.history :
         atStart.previous.history[k].session_id # req.session_id

FirstTurn == TurnMessages(atStart.previous.query, atStart.previous.answer)

HistoryReadFailed == \E k \in DOMAIN trace : trace[k] = Caught("get_history_messages")

-----------------------------------------------------------------------------
(* The cache-hit branch of ask_stream, run to its end (query_service.py:185-196) *)

HitRanToEnd == stPc = "done" /\ loc.cached_answer # EmptyText

TokenEvents(tr) == SelectSeq(tr, LAMBDA e : e.kind = "yield" /\ e.type = "token")

\* The number of chunks of chunk_size characters a text is cut into
ChunkCount(text) == (Len(text) + chunk_size - 1) \div chunk_size

HitTurn == <<ChatMessage(req.session_id, "user", req.query),
             ChatMessage(req.session_id, "ai", loc.cached_answer)>>

\* What the hit branch yields and calls, whatever the history store does
HitStreamsCachedAnswer ==
    LET ys   == Yields(trace)
        toks == TokenEvents(trace)
        adds == CallsOf("add_turn")
    IN /\ loc.cached_answer = lookupRes.res.answer
       /\ ys = <<Status("cache_hit")>> \o toks
       /\ Len(toks) = ChunkCount(loc.cached_answer)
       /\ \A k \in DOMAIN toks :
             /\ toks[k].text = SubSeq(loc.cached_answer, chunk_size * (k - 1) + 1,
                                      Min(chunk_size * k, Len(loc.cached_answer)))
             /\ k < Len(toks) => Len(toks[k].text) = chunk_size
             /\ Len(toks[k].text) \in 1..chunk_size
       /\ TokenText(trace) = loc.cached_answer
       /\ Cardinality(adds) = 1
       /\ \A a \in adds :
             /\ trace[a].text = loc.cached_answer
             /\ \A k \in DOMAIN trace : trace[k].kind = "yield" => k < a
       /\ CallsOf("update") = {}
       /\ store = atStart.store
       /\ disk = atStart.disk

-----------------------------------------------------------------------------
(* Concurrent cache updates: the specification and its properties *)

InitConcurrent ==
    /\ store = NoStore
    /\ disk = NoStore
    /\ updPc = "idle"
    /\ updDoc = Document(EmptyText, EmptyText)
    /\ lookupRes = NoLookup
    /\ updLog = {}
    /\ lastOp = "init"
    /\ cfg = [reranker |-> TRUE, cache |-> TRUE]
    /\ IdleRequest
    /\ IdleIngestion
    /\ IdleHybrid
    /\ IdleConcurrent
    /\ IdleTable
    /\ IdleServing

UpdateCalled ==
    /\ \E t \in UpdateTasks, q \in {Q1, Q2}, a \in ConcAnswers : ConcUpdateCall(t, q, a)
    /\ UNCHANGED <<cacheVars, reqVars, ingestVars, hybridVars, tableVars, servingVars>>

FromDocumentsDone ==
    /\ \E t \in UpdateTasks, raises \in BOOLEAN : ConcFromDocumentsDone(t, raises)
    /\ UNCHANGED <<cacheVars, reqVars, ingestVars, hybridVars, tableVars, servingVars>>

AddDocumentsDone ==
    /\ \E t \in UpdateTasks, raises \in BOOLEAN : ConcAddDocumentsDone(t, raises)
    /\ UNCHANGED <<cacheVars, reqVars, ingestVars, hybridVars, tableVars, servingVars>>

FaissWritten ==
    /\ \E t \in UpdateTasks, raises \in BOOLEAN : ConcFaissWritten(t, raises)
    /\ UNCHANGED <<cacheVars, reqVars, ingestVars, hybridVars, tableVars, servingVars>>

PklWritten ==
    /\ \E t \in UpdateTasks, raises \in BOOLEAN : ConcPklWritten(t, raises)
    /\ UNCHANGED <<cacheVars, reqVars, ingestVars, hybridVars, tableVars, servingVars>>

NextConcurrent ==
    \/ UpdateCalled
    \/ FromDocumentsDone
    \/ AddDocumentsDone
    \/ FaissWritten
    \/ PklWritten

SpecConcurrent == InitConcurrent /\ [][NextConcurrent]_vars

\* Two update() calls ran, each saw self._store is None, and both returned
\* after their save
BothBuiltFreshIndex ==
    /\ conc.ncalls = 2
    /\ \A t \in UpdateTasks :
          /\ conc.task[t].pc = "idle"
          /\ conc.task[t].branch = "from_documents"
          /\ conc.task[t].outcome = "saved"

\* C25: cache writes are not serialized.  When two concurrent update() calls
\* on a cache with no index both observe the missing index, each builds a
\* fresh one-entry index; the later assignment replaces the earlier one, so
\* that memory holds only the entry of the call that assigned last, and the
\* index files hold one entry: a lost update.
C25_ConcurrentFirstUpdatesLoseOne ==
    BothBuiltFreshIndex =>
        /\ Len(conc.assigned) = 2
        /\ conc.assigned[1] # conc.assigned[2]
        /\ conc.store # None
        /\ conc.heap[conc.store] = <<conc.task[conc.assigned[2]].doc>>
        /\ \A file \in {conc.faiss, conc.pkl} :
              /\ file.exists
              /\ \E t \in UpdateTasks : file.docs = <<conc.task[t].doc>>

\* Both calls stored different questions, and one of them is neither in
\* memory nor in the index files.
C25_Witness ==
    /\ BothBuiltFreshIndex
    /\ conc.task[1].doc.page_content # conc.task[2].doc.page_content
    /\ \E lost \in UpdateTasks :
          /\ conc.heap[conc.store] # <<conc.task[lost].doc>>
          /\ conc.faiss.docs # <<conc.task[lost].doc>>
          /\ conc.pkl.docs # <<conc.task[lost].doc>>
          /\ Len(conc.heap[conc.store]) = 1
          /\ Len(conc.faiss.docs) = 1
          /\ Len(conc.pkl.docs) = 1


-----------------------------------------------------------------------------
(* HistoryService on the timestamped table: the specification and its      *)
(* properties                                                              *)

InitHistory ==
    /\ store = NoStore
    /\ disk = NoStore
    /\ updPc = "idle"
    /\ updDoc = Document(EmptyText, EmptyText)
    /\ lookupRes = NoLookup
    /\ updLog = {}
    /\ lastOp = "init"
    /\ cfg = [reranker |-> TRUE, cache |-> TRUE]
    /\ IdleRequest
    /\ IdleIngestion
    /\ IdleHybrid
    /\ IdleConcurrent
    /\ IdleTable
    /\ IdleServing

\* One add_turn call, awaited to its end
HistoryAddTurn ==
    /\ tbl.ncalls < MaxTurns
    /\ \E sid \in Sessions, step \in ClockSteps, commitRaises \in BOOLEAN :
         LET now == tbl.clock + step
             k   == tbl.ncalls + 1
         IN tbl' = [rows |-> table_add_turn(tbl.rows, sid, <<"q">> \o TurnTexts[k],
                                            <<"a">> \o TurnTexts[k], now, commitRaises),
                    clock |-> now, ncalls |-> k, read |-> NoRead]
    /\ UNCHANGED <<cacheVars, reqVars, ingestVars, hybridVars, concVars, servingVars>>

\* One get_history_messages call
HistoryRead ==
    /\ \E sid \in Sessions, queryRaises \in BOOLEAN :
         tbl' = [tbl EXCEPT !.read =
                    [done |-> TRUE, session_id |-> sid, raised |-> queryRaises,
                     msgs |-> table_get_history_messages(tbl.rows, sid, queryRaises)]]
    /\ UNCHANGED <<cacheVars, reqVars, ingestVars, hybridVars, concVars, servingVars>>

NextHistory ==
    \/ HistoryAddTurn
    \/ HistoryRead

SpecHistory == InitHistory /\ [][NextHistory]_vars

\* The rows of a session in the order in which they were appended
AppendedTo(sid) == SelectSeq(tbl.rows, LAMBDA r : r.session_id = sid)

AsMessages(rows) == [i \in DOMAIN rows |-> [role |-> rows[i].role, content |-> rows[i].content]]

\* C26: for any sequence of add_turn calls on any sessions, a
\* get_history_messages(s) call that the store answers returns only messages
\* of session s, namely the last min(2N, total) messages appended to s with
\* N = 5, in the order in which they were appended, each user message
\* immediately followed by its own answer.
C26_WindowInAppendOrder ==
    (tbl.read.done /\ ~tbl.read.raised) =>
        LET appended == AppendedTo(tbl.read.session_id)
            msgs == tbl.read.msgs
        IN /\ Len(msgs) = Min(2 * max_history_len, Len(appended))
           /\ msgs = AsMessages(LastN(appended, 2 * max_history_len))
           /\ \A i \in DOMAIN msgs :
                 msgs[i].role = "user" =>
                    /\ i < Len(msgs)
                    /\ msgs[i + 1].role = "ai"
                    /\ Tail(msgs[i + 1].content) = Tail(msgs[i].content)


-----------------------------------------------------------------------------
(* The hash map against the vector index *)

\* The chunks of the content with hash h of the file at path
ChunksWithHash(path, h) ==
    UNION {{split_documents(<<LoadedDocument(path, c)>>)[k] :
               k \in DOMAIN split_documents(<<LoadedDocument(path, c)>>)} :
           c \in {x \in Contents : _get_file_hash(x) = h}}

Holds(index, chunk) == \E k \in DOMAIN index.docs : index.docs[k] = chunk

\* C27: in every state, whenever the persisted hash map records hash h for a
\* file, the chunks of that file's content with hash h are in the vector
\* index and in its persisted file; and a changed file whose loading failed
\* in a run does not have its new hash in the hash map that run wrote.
C27_HashMapImpliesIndexed ==
    /\ metadata_file.status = "ok" =>
          \A path \in DOMAIN metadata_file.map :
             \A chunk \in ChunksWithHash(path, metadata_file.map[path]) :
                /\ Holds(faiss_store, chunk)
                /\ Holds(faiss_index_file, chunk)
    /\ "metadata_file" \in ing.writes =>
          \A path \in ing.changed \cap ing.unloaded :
             dict_get(metadata_file.map, path) # _get_file_hash(ing.atStart.data_dir[path])


\* The chunks of the files as the data root held them when the run started
CurrentChunks ==
    UNION {{split_documents(<<LoadedDocument(path, ing.atStart.data_dir[path])>>)[k] :
               k \in DOMAIN split_documents(<<LoadedDocument(path, ing.atStart.data_dir[path])>>)} :
           path \in {x \in Paths : ing.atStart.data_dir[x] # Absent}}

\* C28: after any sequence of runs without force_rebuild the last of which
\* returned, the vector index holds each chunk of the current corpus at most
\* once and no chunk of superseded content, also when a file was rewritten
\* and when a run that failed after its vector update was retried.
C28_IndexHoldsCurrentChunksOnce ==
    (ing.pc = "returned" /\ ~ing.forced) =>
        /\ \A k \in DOMAIN faiss_store.docs : faiss_store.docs[k] \in CurrentChunks
        /\ \A j, k \in DOMAIN faiss_store.docs :
              faiss_store.docs[j] = faiss_store.docs[k] => j = k


-----------------------------------------------------------------------------
(* Ingestion inside the serving process (api/main.py:291-303): the        *)
(* IngestionService and the retrievers of the QueryService share the      *)
(* FaissVectorStore, and run builds its own BM25Retriever                 *)

\* The server starts: the vector store is loaded (factories.py:80) and the
\* retriever and the QueryService are created (application.py:121-178)
ServingStart ==
    /\ IngestIdle
    /\ nruns < MaxRuns
    /\ faiss_store' = load_local(NoIndex, faiss_index_file)
    /\ \E loadRaises \in BOOLEAN :
         srv' = Serving(strategy, faiss_store', bm25_index_file, loadRaises, nruns)
    /\ UNCHANGED <<metadata_file, faiss_index_file, bm25_index_file>>
    /\ UNCHANGED <<strategy, data_dir, nruns, ing>>
    /\ UNCHANGED <<cacheVars, reqVars, hybridVars, concVars, tableVars>>

\* A query is started: its retrieval step reads the indexes the retrievers
\* of the QueryService hold (bm25.py:97-111, vector.py:39-55)
ServeQuery ==
    /\ srv.query_service
    /\ IngestIdle
    /\ srv' = [srv EXCEPT !.seen = [done |-> TRUE, run |-> nruns,
                                    bm25 |-> srv.bm25, vector |-> srv.vector]]
    /\ srv' # srv
    /\ StoresUnchanged
    /\ UNCHANGED <<strategy, data_dir, nruns, ing>>
    /\ UNCHANGED <<cacheVars, reqVars, hybridVars, concVars, tableVars>>

NextServing ==
    \/ NextIngest
    \/ ServingStart
    \/ ServeQuery

SpecServing == InitIngest /\ [][NextServing]_vars

\* A query was started after a run that began and returned inside the
\* serving process whose QueryService existed before the run
QueriedAfterRun ==
    /\ srv.query_service
    /\ srv.started_at < nruns
    /\ ing.pc = "returned"
    /\ srv.seen.done
    /\ srv.seen.run = nruns

\* C29: after an ingestion run has completed inside a serving process whose
\* QueryService was constructed before it, a query started afterwards
\* retrieves from the indexes as that run wrote them: the lexical retriever
\* from the BM25 index the run built, the vector retriever from the current
\* vector store, also after force_rebuild replaced it.
C29_QueriesUseIndexesOfLastRun ==
    QueriedAfterRun =>
        /\ needs_bm25(strategy) => srv.seen.bm25 = bm25_index_file
        /\ strategy \in {"vector", "hybrid"} => srv.seen.vector = faiss_store


-----------------------------------------------------------------------------
(* SemanticCacheService across restarts of the process *)

\* A new SemanticCacheService is constructed on the same persist directory
\* (cache_service.py:36-41)
CacheRestart ==
    /\ updPc = "idle"
    /\ \E loadRaises \in BOOLEAN : store' = _init_cache(disk, loadRaises)
    /\ lastOp' = "restart"
    /\ lookupRes' = NoLookup
    /\ UNCHANGED <<disk, updPc, updDoc, updLog>>
    /\ UNCHANGED <<reqVars, ingestVars, hybridVars, concVars, tableVars, servingVars>>

NextCacheRestart ==
    \/ NextCache
    \/ CacheRestart

SpecCacheRestart == InitCache /\ [][NextCacheRestart]_vars

IsPrefix(a, b) == Len(a) <= Len(b) /\ SubSeq(b, 1, Len(a)) = a

OnDisk(query) == \E k \in DOMAIN disk.docs : disk.docs[k].page_content = query

\* C30: cache entries survive a restart.  A new SemanticCacheService
\* constructed on a persist directory with a saved index holds that index;
\* a lookup of a question whose entry is saved returns a stored answer; and
\* an update that saves adds to the saved entries instead of replacing them.
C30_EntriesSurviveRestart ==
    [][/\ (lastOp' = "restart" /\ disk.exists) => store' = disk
       /\ (lastOp' = "lookup" /\ ~lookupRes'.searchRaises /\ OnDisk(lookupRes'.query)) =>
             lookupRes'.res.hit
       /\ (disk.exists /\ disk' # disk) => IsPrefix(disk.docs, disk'.docs)]_vars

====
